---- MODULE Spec2Model ----
(***************************************************************************)
(* Gruha Alankara AI engine (ai_engine.py): the style knowledge base, the  *)
(* seeded mock recommendation synthesizer, the vision-enrichment wrapper,  *)
(* the public generate_design entry point and the VoiceAgent dispatcher.   *)
(*                                                                         *)
(* Python strings are TLA+ strings; characters are strings of length one.  *)
(* Long canned texts are abbreviated to their ASCII opening words: they    *)
(* are only ever compared for identity.  Lengths and room areas are kept   *)
(* in tenths (feet, square feet), confidence in thousandths, coverage and  *)
(* light score in tenths, so that all arithmetic is integer arithmetic.    *)
(***************************************************************************)
EXTENDS Integers, Sequences, FiniteSets, TLC

VARIABLES
    rng,          \* state of the process-wide generator of module random
    last,         \* the last generate_design call: its input and its outcome
    memo,         \* an earlier generate_design call, remembered for comparison
    mt,           \* request threads running _mock_generate concurrently
    voice_agent,  \* module global _voice_agent (0 is None)
    chains,       \* per constructed VoiceAgent: its _chain field (0 is None)
    memory,       \* per constructed session: exchanges held in its memory
    vt,           \* request threads running get_voice_agent().answer(...)
    ncalls,       \* calls started so far
    fs,           \* the file system: directories, and files with their content
    tts,          \* the last TTSEngine.synthesize call: its input and its outcome
    hex,          \* the last _hex_to_rgb call: its input and its outcome
    kb_tips,      \* per style: the content of the list STYLE_KNOWLEDGE[style]["tips"]
    held,         \* the results callers hold, design_tips by the list it refers to
    ask,          \* the last ask_voice request: its input and its response
    db_used,      \* per user: the committed users.ai_analyses_used
    qt,           \* request threads running the design-generate handler
    bookings,     \* the furniture_bookings table
    bt            \* request threads running create_booking or cancel_booking

vars == <<rng, last, memo, mt, voice_agent, chains, memory, vt, ncalls, fs, tts, hex,
          kb_tips, held, ask, db_used, qt, bookings, bt>>

\* the state of the knowledge base lists and of the web handlers
server == <<kb_tips, held, ask, db_used, qt, bookings, bt>>

\* Python's None where a string is expected
None == "None"

\* room_area when no area was computed (None)
NoArea == -1

\* no result: the call raised
NoResult == [raised |-> TRUE]

-----------------------------------------------------------------------------
(* str methods used by the engine                                          *)

Char(s, i) == SubSeq(s, i, i)

LowerAlpha == "abcdefghijklmnopqrstuvwxyz"
UpperAlpha == "ABCDEFGHIJKLMNOPQRSTUVWXYZ"

\* the characters of s, and the position of a character in s
Chars(s) == {Char(s, i) : i \in 1..Len(s)}
IndexIn(s) == [c \in Chars(s) |-> CHOOSE i \in 1..Len(s) : Char(s, i) = c]

LowerChars == Chars(LowerAlpha)
UpperChars == Chars(UpperAlpha)
ToLower == [c \in UpperChars |-> Char(LowerAlpha, IndexIn(UpperAlpha)[c])]
ToUpper == [c \in LowerChars |-> Char(UpperAlpha, IndexIn(LowerAlpha)[c])]

IsLowerChar(c) == c \in LowerChars
IsUpperChar(c) == c \in UpperChars
IsCased(c) == IsLowerChar(c) \/ IsUpperChar(c)
IsSpace(c) == c \in {" ", "\t", "\n", "\r", "\f"}

LowerChar(c) == IF IsUpperChar(c) THEN ToLower[c] ELSE c

UpperChar(c) == IF IsLowerChar(c) THEN ToUpper[c] ELSE c

\* str.lower()
RECURSIVE StrLower(_)
StrLower(s) ==
    IF s = "" THEN "" ELSE LowerChar(Head(s)) \o StrLower(Tail(s))

\* str.upper()
RECURSIVE StrUpper(_)
StrUpper(s) ==
    IF s = "" THEN "" ELSE UpperChar(Head(s)) \o StrUpper(Tail(s))

\* str.strip(): leading and trailing whitespace removed
RECURSIVE LStrip(_)
LStrip(s) ==
    IF s # "" /\ IsSpace(Head(s)) THEN LStrip(Tail(s)) ELSE s

RECURSIVE RStrip(_)
RStrip(s) ==
    IF s # "" /\ IsSpace(Char(s, Len(s)))
    THEN RStrip(SubSeq(s, 1, Len(s) - 1))
    ELSE s

StrStrip(s) == RStrip(LStrip(s))

\* str.title(): a cased character is upper-cased when the character before
\* it is not cased, and lower-cased otherwise
RECURSIVE TitleFrom(_, _)
TitleFrom(s, prevCased) ==
    IF s = "" THEN ""
    ELSE LET c == Head(s)
         IN  (IF ~IsCased(c) THEN c
              ELSE IF prevCased THEN LowerChar(c) ELSE UpperChar(c))
             \o TitleFrom(Tail(s), IsCased(c))

StrTitle(s) == TitleFrom(s, FALSE)

\* needle in hay
StrContains(needle, hay) ==
    \E i \in 1..(Len(hay) - Len(needle) + 1) :
        SubSeq(hay, i, i + Len(needle) - 1) = needle

\* len(s.split()): the maximal runs of non-whitespace characters
SplitCount(s) ==
    Cardinality({i \in 1..Len(s) :
        /\ ~IsSpace(Char(s, i))
        /\ (i = 1 \/ IsSpace(Char(s, i - 1)))})

\* s[:n]
StrPrefix(s, n) == SubSeq(s, 1, IF Len(s) < n THEN Len(s) ELSE n)

\* format spec 03d, for the indexes a result can hold
Digit(d) == Char("0123456789", d + 1)
Fmt03d(i) == Digit((i \div 100) % 10) \o Digit((i \div 10) % 10) \o Digit(i % 10)

-----------------------------------------------------------------------------
(* STYLE_KNOWLEDGE                                                         *)

FurnitureTemplate(n, m, c, p, cat, pl) ==
    [name |-> n, material |-> m, color |-> c, price_inr |-> p,
     category |-> cat, placement |-> pl]

ColorSwatch(n, h, u) == [name |-> n, hex |-> h, usage |-> u]

ModernProfile ==
    [furniture |-> <<
        FurnitureTemplate("Sectional Sofa", "Microfibre", "Slate Grey", 45000, "Seating", "against north wall"),
        FurnitureTemplate("Glass Coffee Table", "Tempered Glass", "Clear/Chrome", 12000, "Table", "centre of seating area"),
        FurnitureTemplate("Modular Bookshelf", "MDF Lacquer", "Matte White", 18000, "Storage", "east wall"),
        FurnitureTemplate("Floor Lamp", "Metal", "Brushed Nickel", 5500, "Lighting", "beside sofa corner"),
        FurnitureTemplate("Abstract Wall Art", "Canvas", "Multicolour", 8000, "Decor", "focal wall") >>,
     color_scheme |-> <<
        ColorSwatch("Warm Ivory", "#F5F0E8", "Primary - walls"),
        ColorSwatch("Slate Grey", "#708090", "Secondary - upholstery"),
        ColorSwatch("Charcoal", "#36454F", "Accent - furniture frames"),
        ColorSwatch("Brass Gold", "#C8922A", "Highlight - fixtures") >>,
     tips |-> <<
        "Keep lines clean and clutter-free",
        "Use statement lighting to define zones",
        "Incorporate one bold geometric rug" >>]

TraditionalProfile ==
    [furniture |-> <<
        FurnitureTemplate("Teak Diwan", "Solid Teak", "Honey Brown", 35000, "Seating", "along east wall"),
        FurnitureTemplate("Brass Lamp", "Brass", "Antique Gold", 7000, "Lighting", "puja corner"),
        FurnitureTemplate("Carved Wooden Cabinet", "Sheesham Wood", "Dark Walnut", 55000, "Storage", "facing entrance"),
        FurnitureTemplate("Jhoola (Swing)", "Teak + Jute", "Natural", 22000, "Seating", "verandah or corner"),
        FurnitureTemplate("Madhubani Painting", "Canvas", "Earth Tones", 12000, "Decor", "main wall") >>,
     color_scheme |-> <<
        ColorSwatch("Saffron", "#F4A460", "Primary - walls"),
        ColorSwatch("Deep Maroon", "#800020", "Accent - textiles"),
        ColorSwatch("Turmeric Gold", "#E3A857", "Highlight - brass accents"),
        ColorSwatch("Ivory Cream", "#FFFFF0", "Secondary - ceiling") >>,
     tips |-> <<
        "Use natural materials",
        "Incorporate brass and copper vessels",
        "Handloom textiles in block-print patterns" >>]

MinimalistProfile ==
    [furniture |-> <<
        FurnitureTemplate("Platform Bed", "Birch Plywood", "Natural Oak", 28000, "Sleeping", "centred on main wall"),
        FurnitureTemplate("Floating Shelves", "Bamboo", "Light Natural", 6000, "Storage", "above desk"),
        FurnitureTemplate("Wire Chair", "Steel Wire", "Matte Black", 9500, "Seating", "reading corner"),
        FurnitureTemplate("Linen Curtains", "Linen", "Off-White", 4500, "Soft Furnishings", "all windows") >>,
     color_scheme |-> <<
        ColorSwatch("Snow White", "#FFFAFA", "Primary - walls & ceiling"),
        ColorSwatch("Warm Beige", "#F5F5DC", "Secondary - textiles"),
        ColorSwatch("Charcoal Black", "#2F2F2F", "Accent - thin frames"),
        ColorSwatch("Sage Green", "#B2C2B2", "Nature accent - single plant") >>,
     tips |-> <<
        "Follow the 'one in, one out' rule",
        "A single large indoor plant adds life",
        "Hidden storage is essential" >>]

BohemianProfile ==
    [furniture |-> <<
        FurnitureTemplate("Rattan Peacock Chair", "Rattan", "Natural Honey", 15000, "Seating", "window corner"),
        FurnitureTemplate("Moroccan Poufs", "Leather", "Caramel", 5000, "Seating", "around coffee table"),
        FurnitureTemplate("Macrame Wall Hanging", "Cotton Rope", "Cream", 3500, "Decor", "feature wall"),
        FurnitureTemplate("Vintage Trunk", "Wood + Leather", "Brown Patina", 11000, "Storage", "foot of bed"),
        FurnitureTemplate("Persian Rug", "Wool", "Multi-Jewel", 20000, "Textiles", "centre of room") >>,
     color_scheme |-> <<
        ColorSwatch("Terracotta", "#C4603A", "Primary - walls & pots"),
        ColorSwatch("Mustard Yellow", "#FFDB58", "Accent - cushions & throws"),
        ColorSwatch("Forest Green", "#228B22", "Nature - plants & textiles"),
        ColorSwatch("Deep Teal", "#008080", "Contrast - feature items") >>,
     tips |-> <<
        "Layer multiple rugs and textiles",
        "Collect globally",
        "String lights or Moroccan lanterns" >>]

HaveliProfile ==
    [furniture |-> <<
        FurnitureTemplate("Carved Jharokha Frame", "Rajasthani Teak", "Deep Brown", 65000, "Architectural", "feature wall"),
        FurnitureTemplate("Mughal-style Charpai", "Iron + Jute", "Black/Natural", 18000, "Seating", "courtyard or room"),
        FurnitureTemplate("Meenakari Lamp", "Copper/Enamel", "Jewel tones", 9000, "Lighting", "entrance hall"),
        FurnitureTemplate("Antique Almari", "Sheesham", "Aged Teak", 75000, "Storage", "master bedroom") >>,
     color_scheme |-> <<
        ColorSwatch("Royal Blue", "#4169E1", "Feature - painted niches"),
        ColorSwatch("Saffron Orange", "#FF6700", "Primary - Rajasthani tradition"),
        ColorSwatch("Ivory Stone", "#FFFFF0", "Base - lime-washed walls"),
        ColorSwatch("Forest Green", "#355E3B", "Secondary - peacock motifs") >>,
     tips |-> <<
        "Introduce jaali (lattice) screens",
        "Blue pottery from Jaipur and Pichwai paintings",
        "A central chowk with a water feature" >>]

STYLE_KNOWLEDGE ==
    "Modern" :> ModernProfile @@ "Traditional" :> TraditionalProfile
    @@ "Minimalist" :> MinimalistProfile @@ "Bohemian" :> BohemianProfile
    @@ "Haveli" :> HaveliProfile

DEFAULT_STYLE == "Modern"

\* STYLE_KNOWLEDGE.get(style, STYLE_KNOWLEDGE[_DEFAULT_STYLE])
GetStyleData(style) ==
    IF style \in DOMAIN STYLE_KNOWLEDGE
    THEN STYLE_KNOWLEDGE[style]
    ELSE STYLE_KNOWLEDGE[DEFAULT_STYLE]

-----------------------------------------------------------------------------
(* _hex_to_rgb                                                             *)

HexDigits == "0123456789abcdef"
HexChars == Chars(HexDigits)
HexIndex == IndexIn(HexDigits)
IsHexChar(c) == LowerChar(c) \in HexChars
HexVal(c) == HexIndex[LowerChar(c)] - 1

\* str.lstrip("#")
RECURSIVE LStripHash(_)
LStripHash(s) ==
    IF s # "" /\ Head(s) = "#" THEN LStripHash(Tail(s)) ELSE s

\* int(h[i:i+2], 16) for two hexadecimal digits
HexPair(h, i) == 16 * HexVal(Char(h, i)) + HexVal(Char(h, i + 1))

\* the marker left in place: seven characters are never six
HexToRgbKeepsMarker(hex_color) ==
    IF Len(hex_color) # 6 THEN [r |-> 0, g |-> 0, b |-> 0]
    ELSE [r |-> HexPair(hex_color, 1), g |-> HexPair(hex_color, 3),
          b |-> HexPair(hex_color, 5)]

\* A string of the wrong length gives black; six characters that are not all
\* hexadecimal digits make int() raise ValueError.
HexToRgb(hex_color) ==
    LET h == LStripHash(hex_color)
    IN  IF Len(h) # 6 THEN [r |-> 0, g |-> 0, b |-> 0]
        ELSE IF \A i \in 1..6 : IsHexChar(Char(h, i))
        THEN [r |-> HexPair(h, 1), g |-> HexPair(h, 3), b |-> HexPair(h, 5)]
        ELSE [kind |-> "raise", error |-> "ValueError"]

-----------------------------------------------------------------------------
(* module random: the process-wide generator.  The Mersenne Twister is     *)
(* modelled by a full-period congruential generator on RngModulus states:  *)
(* seeding fixes the state, every draw advances it and returns the new     *)
(* state as its output.                                                    *)

RngModulus == 65536

\* random.seed(n)
RngSeed(n) == (n * 40503 + 12345) % RngModulus

\* one output of the generator: the successor state
RngNext(s) == (s * 25173 + 13849) % RngModulus

\* _randbelow(n), from one output
RandBelow(out, n) == (out * n) \div RngModulus

\* random.randint(a, b)
RandInt(out, a, b) == a + RandBelow(out, b - a + 1)

\* round(random.uniform(a, b), digits), with a and b given in units of the
\* last digit kept: a + (b - a) * random(), rounded to the nearest unit
UniformRounded(out, a, b) ==
    (2 * (a * RngModulus + (b - a) * out) + RngModulus) \div (2 * RngModulus)

Min(a, b) == IF a < b THEN a ELSE b

\* random.sample(population, k), the pool branch taken for short populations:
\* for i in range(k): j = _randbelow(n - i); result[i] = pool[j];
\* pool[j] = pool[n - i - 1].  outs holds the k outputs drawn.
RECURSIVE SampleLoop(_, _, _, _, _)
SampleLoop(pool, i, k, outs, result) ==
    IF i >= k THEN result
    ELSE LET n == Len(pool)
             j == RandBelow(outs[i + 1], n - i)
         IN  SampleLoop([pool EXCEPT ![j + 1] = pool[n - i]], i + 1, k, outs,
                        Append(result, pool[j + 1]))

\* k independent picks, the pool left as it is
RandomSampleWithReplacement(population, k, outs) ==
    [i \in 1..k |-> population[RandBelow(outs[i], Len(population)) + 1]]

RandomSample(population, k, outs) == SampleLoop(population, 0, k, outs, <<>>)

-----------------------------------------------------------------------------
(* _mock_generate.  outs is the sequence of generator outputs the call     *)
(* draws, in call order: the item count, one per sampled item, confidence, *)
(* processing time, one coverage per swatch, light score, labour, misc.    *)

\* min(len(style_data["furniture"]), random.randint(3, 4))
NItems(style_data, outs) == Min(Len(style_data.furniture), RandInt(outs[1], 3, 4))

\* the number of outputs the call draws, known once the first is drawn
DrawsNeeded(style, outs) ==
    IF outs = <<>> THEN 1
    ELSE LET style_data == GetStyleData(style)
         IN  1 + NItems(style_data, outs) + 2 + Len(style_data.color_scheme) + 3

\* random.sample(style_data["furniture"], n_items)
FurniturePicks(style_data, outs) ==
    LET n_items == NItems(style_data, outs)
    IN  RandomSample(style_data.furniture, n_items, SubSeq(outs, 2, 1 + n_items))

\* the index counted from 0
FurnitureIdFromZero(style, i) ==
    "FURN-" \o StrUpper(StrPrefix(style, 3)) \o "-" \o Fmt03d(i - 1)

\* f"FURN-{style[:3].upper()}-{i:03d}"
FurnitureId(style, i) == "FURN-" \o StrUpper(StrPrefix(style, 3)) \o "-" \o Fmt03d(i)

FurnitureOutput(style, furniture_picks) ==
    [i \in 1..Len(furniture_picks) |->
        LET item == furniture_picks[i]
        IN  [id |-> FurnitureId(style, i),
             name |-> item.name,
             category |-> item.category,
             material |-> item.material,
             color |-> item.color,
             price_inr |-> item.price_inr,
             quantity |-> 1,
             available |-> TRUE,
             placement |-> item.placement,
             priority |-> IF i = 1 THEN "recommended" ELSE "optional"]]

\* dimensions and dimensions.get("length") and dimensions.get("width").
\* dimensions is a record of length and width; an entry that is missing or
\* zero is 0, and None or an empty dict is the record of two zeros.
HasDimensions(dimensions) ==
    dimensions.length # 0 /\ dimensions.width # 0

\* round(x, 1) of a product given in hundredths, in tenths
Round1(hundredths) ==
    LET q == hundredths \div 10
        r == hundredths % 10
    IN  IF r > 5 \/ (r = 5 /\ q % 2 = 1) THEN q + 1 ELSE q

\* the product cut to one decimal instead of rounded
RoomAreaTruncated(dimensions) ==
    IF HasDimensions(dimensions)
    THEN (dimensions.length * dimensions.width) \div 10
    ELSE NoArea

\* room_area, in tenths of a square foot
RoomArea(dimensions) ==
    IF HasDimensions(dimensions)
    THEN Round1(dimensions.length * dimensions.width)
    ELSE NoArea

BandNotes(room_area) ==
    IF room_area = NoArea THEN <<>>
    ELSE IF room_area < 1000
    THEN <<"Small room: prioritise wall-mounted storage", "Use mirrors to create an illusion of depth">>
    ELSE IF room_area < 2000
    THEN <<"Medium room: an L-shaped sofa arrangement", "Consider a centrally anchored area rug">>
    ELSE <<"Large room: divide into functional zones", "Use a statement chandelier">>

PlacementNotes(style, style_data, room_area) ==
    BandNotes(room_area) \o
    << "Ensure at least 90 cm clearance between all walkways",
       "Position seating to face the primary light source",
       "For " \o style \o " style: " \o style_data.tips[1] >>

\* the strategy switched at the band threshold of 200
StrategyAtBand(room_area) ==
    IF (IF room_area = NoArea THEN 0 ELSE room_area) > 2000
    THEN "zone-based" ELSE "single-zone"

\* "zone-based" if (room_area or 0) > 150 else "single-zone"
Strategy(room_area) ==
    IF (IF room_area = NoArea THEN 0 ELSE room_area) > 1500
    THEN "zone-based" ELSE "single-zone"

TrafficFlow(style) ==
    IF style \in {"Modern", "Minimalist"} THEN "U-shape" ELSE "open-plan"

RECURSIVE SumPrices(_)
SumPrices(items) ==
    IF items = <<>> THEN 0 ELSE Head(items).price_inr + SumPrices(Tail(items))

\* sum(f["price_inr"] for f in furniture_picks)
FurnitureTotal(style_data, furniture_picks) == SumPrices(furniture_picks)

\* sum(d.values())
RECURSIVE SumValues(_, _)
SumValues(d, keys) ==
    IF keys = {} THEN 0
    ELSE LET k == CHOOSE x \in keys : TRUE
         IN  d[k] + SumValues(d, keys \ {k})

\* the total taken over two entries only
GrandTotalNoMisc(budget) ==
    budget @@ [grand_total |-> budget.furniture_total + budget.labour_estimate]

\* result["estimated_budget_inr"]["grand_total"] = sum(....values())
WithGrandTotal(budget) ==
    budget @@ [grand_total |-> SumValues(budget, DOMAIN budget)]

\* the result dict built from style_data, the entry _get_style_data returned
MockResultFrom(style_data, image_path, style, room_type, dimensions, outs, uuid4) ==
    LET n_items == NItems(style_data, outs)
        furniture_picks == FurniturePicks(style_data, outs)
        room_area == RoomArea(dimensions)
        at == 1 + n_items
        ncol == Len(style_data.color_scheme)
    IN  [project_meta |->
            [style |-> style,
             room_type |-> room_type,
             room_area_sqft |-> room_area,
             analysis_id |-> uuid4,
             confidence |-> UniformRounded(outs[at + 1], 780, 960),
             processing_time_ms |-> RandInt(outs[at + 2], 800, 2400),
             model |-> "GruhaAI-Mock-v1.0"],
         furniture |-> FurnitureOutput(style, furniture_picks),
         color_scheme |->
            [i \in 1..ncol |->
                LET c == style_data.color_scheme[i]
                IN  [name |-> c.name,
                     hex |-> c.hex,
                     rgb |-> HexToRgb(c.hex),
                     usage |-> c.usage,
                     coverage_percent |-> UniformRounded(outs[at + 2 + i], 150, 450)]],
         placement |->
            [strategy |-> Strategy(room_area),
             notes |-> PlacementNotes(style, style_data, room_area),
             traffic_flow |-> TrafficFlow(style),
             natural_light_score |-> UniformRounded(outs[at + 2 + ncol + 1], 55, 95)],
         design_tips |-> style_data.tips,
         estimated_budget_inr |->
            WithGrandTotal(
                [furniture_total |-> FurnitureTotal(style_data, furniture_picks),
                 labour_estimate |-> RandInt(outs[at + 2 + ncol + 2], 15000, 45000),
                 miscellaneous |-> RandInt(outs[at + 2 + ncol + 3], 5000, 15000)])]

\* the result of a call that finds the knowledge base as the module defines it
MockResult(image_path, style, room_type, dimensions, outs, uuid4) ==
    MockResultFrom(GetStyleData(style), image_path, style, room_type, dimensions,
                   outs, uuid4)

\* the outputs a call draws when nothing else touches the generator
RECURSIVE DrawAll(_, _, _)
DrawAll(state, style, outs) ==
    IF Len(outs) >= DrawsNeeded(style, outs)
    THEN [rng |-> state, outs |-> outs]
    ELSE DrawAll(RngNext(state), style, Append(outs, RngNext(state)))

\* the seeding left out: the generator keeps the state it was found in
ReseedMissing(state, image_path, style) == state

\* the seed taken from the text of the path: the sum of its letters'
\* alphabet positions, each weighted by its place in the path
ReseedByContent(state, image_path, style) ==
    LET letters == IndexIn(LowerAlpha)
        weight(i) == IF LowerChar(Char(image_path, i)) \in DOMAIN letters
                     THEN i * letters[LowerChar(Char(image_path, i))] ELSE 0
        sum[i \in 0..Len(image_path)] == IF i = 0 THEN 0 ELSE sum[i - 1] + weight(i)
    IN  RngSeed(sum[Len(image_path)] + Len(style))

\* random.seed(len(image_path) + len(style)), applied to the generator
Reseed(state, image_path, style) == RngSeed(Len(image_path) + Len(style))

\* _mock_generate run without interruption from generator state `state`:
\* the state it leaves and the result it returns
MockGenerate(state, image_path, style, room_type, dimensions, uuid4) ==
    LET d == DrawAll(Reseed(state, image_path, style), style, <<>>)
    IN  [rng |-> d.rng,
         result |-> MockResult(image_path, style, room_type, dimensions, d.outs, uuid4)]

-----------------------------------------------------------------------------
(* _real_generate.  caption is what the captioning step does: it raises    *)
(* (the import, the pipeline construction, Image.open or the captioner     *)
(* call), or the captioner returns a list of generations.                  *)

Raises(error) == [kind |-> "raise", error |-> error]
Returns(value) == [kind |-> "return", value |-> value]

\* caption_result[0]["generated_text"] if caption_result else "a room interior"
CaptionText(caption_result) ==
    IF caption_result = <<>> THEN "a room interior"
    ELSE caption_result[1].generated_text

\* the classes derived from Exception that the captioning step can raise
ExceptionClasses == {"ImportError", "OSError", "UnidentifiedImageError", "RuntimeError"}

\* only the ImportError clause
RealCatchesImportOnly(error) == error = "ImportError"

\* the except clauses of _real_generate: ImportError, then Exception
RealCatches(error) == error = "ImportError" \/ error \in ExceptionClasses

\* the caption spliced in, the model identifier left as the mock wrote it
RealGenerateKeepsModel(state, image_path, style, room_type, dimensions, uuid4, caption) ==
    LET mock == MockGenerate(state, image_path, style, room_type, dimensions, uuid4)
    IN  IF caption.kind = "return"
        THEN [rng |-> mock.rng,
              outcome |-> "returned",
              result |-> [mock.result EXCEPT !.project_meta =
                            mock.result.project_meta
                            @@ [image_caption |-> CaptionText(caption.value)]]]
        ELSE IF RealCatches(caption.error)
        THEN [rng |-> mock.rng, outcome |-> "returned", result |-> mock.result]
        ELSE [rng |-> state, outcome |-> caption.error, result |-> NoResult]

RealGenerate(state, image_path, style, room_type, dimensions, uuid4, caption) ==
    LET mock == MockGenerate(state, image_path, style, room_type, dimensions, uuid4)
    IN  IF caption.kind = "return"
        THEN [rng |-> mock.rng,
              outcome |-> "returned",
              result |-> [mock.result EXCEPT !.project_meta =
                            [mock.result.project_meta EXCEPT
                                !.model = "BLIP-image-captioning-base"]
                            @@ [image_caption |-> CaptionText(caption.value)]]]
        ELSE IF RealCatches(caption.error)
        THEN [rng |-> mock.rng, outcome |-> "returned", result |-> mock.result]
        ELSE [rng |-> state, outcome |-> caption.error, result |-> NoResult]

-----------------------------------------------------------------------------
(* generate_design                                                         *)

\* the files os.path.isfile finds
ExistingFiles == {"/uploads/room.jpg", "/uploads/hall.jpg", "/uploads/kitchen.png"}

IsFile(image_path) == image_path \in ExistingFiles

\* the style trimmed but not title-cased before the lookup
ResolveStyleNoTitle(style) ==
    IF StrStrip(style) \in DOMAIN STYLE_KNOWLEDGE THEN StrStrip(style) ELSE DEFAULT_STYLE

\* the normalized style kept even when it is not registered
ResolveStyleNoDefault(style) == StrTitle(StrStrip(style))

\* style.strip().title(), replaced by the default when not registered
ResolveStyle(style) ==
    LET normalized == StrTitle(StrStrip(style))
    IN  IF normalized \in DOMAIN STYLE_KNOWLEDGE THEN normalized ELSE DEFAULT_STYLE

\* use_mock ("True", "False" or "None"), or when it is None the application's
\* AI_USE_MOCK ("True" or "False"; True outside an application context)
ResolveUseMock(use_mock, config) ==
    IF use_mock # None THEN use_mock = "True"
    ELSE IF config = "NoAppContext" THEN TRUE
    ELSE config = "True"

\* the file check left out
FileCheckSkipped(image_path) == FALSE

\* if not os.path.isfile(image_path): raise FileNotFoundError
FileCheckFails(image_path) == ~IsFile(image_path)

\* The call from generator state `state`: the state it leaves, how it ends
\* (returned, or the exception raised), its result, and the steps it took
\* after the file check.
GenerateDesignCall(state, image_path, style, room_type, dimensions, use_mock, config, uuid4, wall_clock_ms, caption) ==
    IF FileCheckFails(image_path)
    THEN [rng |-> state, outcome |-> "FileNotFoundError", result |-> NoResult,
          effects |-> <<>>]
    ELSE
        LET resolved == ResolveStyle(style)
            mock == ResolveUseMock(use_mock, config)
            m == MockGenerate(state, image_path, resolved, room_type, dimensions, uuid4)
            r == IF mock
                 THEN [rng |-> m.rng, outcome |-> "returned", result |-> m.result]
                 ELSE RealGenerate(state, image_path, resolved, room_type,
                                   dimensions, uuid4, caption)
        IN  [rng |-> r.rng,
             outcome |-> r.outcome,
             result |-> IF r.outcome = "returned"
                        THEN [r.result EXCEPT !.project_meta =
                                r.result.project_meta @@ [wall_clock_ms |-> wall_clock_ms]]
                        ELSE NoResult,
             effects |-> IF mock THEN <<"normalize", "seed">>
                         ELSE IF r.outcome = "returned"
                         THEN <<"normalize", "captioner", "seed">>
                         ELSE <<"normalize", "captioner">>]

-----------------------------------------------------------------------------
(* Sequential callers of generate_design                                   *)

ImagePaths == {"/uploads/room.jpg", "/uploads/kitchen.png", "/no/such/image.jpg"}

StyleInputs == {"Modern", " haveli ", "NotAStyle", ""}

RoomTypes == {"Living Room"}

\* length and width in tenths of a foot
NoDimensions == [length |-> 0, width |-> 0]
DimensionInputs == {NoDimensions, [length |-> 150, width |-> 120]}

\* use_mock with the application's AI_USE_MOCK
UseMockInputs ==
    {<<"True", "NoAppContext">>, <<"False", "True">>, <<None, "True">>,
     <<None, "NoAppContext">>}

CaptionOutcomes ==
    {Raises("ImportError"), Raises("OSError"), Raises("UnidentifiedImageError"),
     Raises("RuntimeError"),
     Returns(<< [generated_text |-> "a living room with a sofa"] >>),
     Returns(<<>>)}

\* uuid.uuid4() and the elapsed wall-clock time of a call: unseeded
Entropy == {<<"uuid-1", 12>>, <<"uuid-2", 31>>}

\* the generator's state when the first request arrives
RngStartStates == {7, 31337}

NoCall == [outcome |-> "none"]

\* the directories present when the process starts, no synthesize call and
\* no _hex_to_rgb call made yet
\* the knowledge base as the module defines it, no result handed out, no
\* request served, empty tables
InitServer ==
    /\ kb_tips = [s \in DOMAIN STYLE_KNOWLEDGE |-> STYLE_KNOWLEDGE[s].tips]
    /\ held = <<>>
    /\ ask = [outcome |-> "none"]
    /\ db_used = <<>>
    /\ qt = <<>>
    /\ bookings = <<>>
    /\ bt = <<>>

InitFiles ==
    /\ InitServer
    /\ fs = [dirs |-> {"/", "/tmp"}, files |-> <<>>]
    /\ tts = [outcome |-> "none"]
    /\ hex = [outcome |-> "none"]

\* the captioning step of a call that never reaches it
NotAsked == [kind |-> "unused"]

NoMemo == [set |-> FALSE]

\* A caller invokes generate_design with these arguments; the environment
\* fixes what uuid4, the clock and the captioning step will give.
CallGenerateDesign(image_path, style, room_type, dimensions, use_mock, config, uuid4, wall_clock_ms, caption) ==
    /\ last.outcome # "pending"
    /\ last' = [image_path |-> image_path, style |-> style,
                room_type |-> room_type, dimensions |-> dimensions,
                use_mock |-> use_mock, config |-> config,
                mock |-> ResolveUseMock(use_mock, config),
                caption |-> caption, uuid4 |-> uuid4,
                wall_clock_ms |-> wall_clock_ms,
                outcome |-> "pending", result |-> NoResult, effects |-> <<>>]
    /\ UNCHANGED <<server, fs, tts, hex, rng, memo, mt, voice_agent, chains, memory, vt, ncalls>>

\* generate_design runs, start to end.
GenerateDesign ==
    /\ last.outcome = "pending"
    /\ \E r \in {GenerateDesignCall(rng, last.image_path, last.style, last.room_type,
                                    last.dimensions, last.use_mock, last.config,
                                    last.uuid4, last.wall_clock_ms, last.caption)} :
        /\ rng' = r.rng
        /\ last' = [last EXCEPT !.outcome = r.outcome, !.result = r.result,
                                !.effects = r.effects]
    /\ UNCHANGED <<server, fs, tts, hex, mt, voice_agent, chains, memory, vt, ncalls>>

InitOthers ==
    /\ InitFiles
    /\ mt = <<>>
    /\ voice_agent = 0
    /\ chains = <<>>
    /\ memory = <<>>
    /\ vt = <<>>
    /\ ncalls = 0

Init ==
    /\ rng \in RngStartStates
    /\ last = NoCall
    /\ memo = NoMemo
    /\ InitOthers

Next ==
    \/ \E image_path \in ImagePaths, style \in StyleInputs, room_type \in RoomTypes,
          dimensions \in DimensionInputs, um \in UseMockInputs, e \in Entropy :
        \E caption \in IF ResolveUseMock(um[1], um[2]) THEN {NotAsked}
                       ELSE CaptionOutcomes :
            CallGenerateDesign(image_path, style, room_type, dimensions, um[1], um[2],
                               e[1], e[2], caption)
    \/ GenerateDesign /\ UNCHANGED memo

Spec == Init /\ [][Next]_vars

-----------------------------------------------------------------------------
(* Repeated calls: one earlier mock-mode call is kept in memo and compared *)
(* with the calls that follow it.                                          *)

\* what two calls are compared on: the furniture, the confidence, the
\* processing time and the coverage values
Projection(result) ==
    [furniture |-> result.furniture,
     confidence |-> result.project_meta.confidence,
     processing_time_ms |-> result.project_meta.processing_time_ms,
     coverage |-> [i \in DOMAIN result.color_scheme |->
                      result.color_scheme[i].coverage_percent]]

RepeatCaptionOutcomes == {Raises("ImportError"), Returns(<<>>)}

\* memo is set by one mock-mode call that returned; afterwards it records
\* that a call came after it (later), and that a call on another
\* (image_path, style) pair did (between).
Remember ==
    \/ /\ ~memo.set
       /\ last'.outcome = "returned"
       /\ last'.mock
       /\ memo' = [set |-> TRUE, image_path |-> last.image_path,
                   style |-> last.style, uuid4 |-> last.uuid4,
                   projection |-> Projection(last'.result),
                   between |-> FALSE, later |-> FALSE]
    \/ /\ ~memo.set
       /\ memo' = memo
    \/ /\ memo.set
       /\ memo' = [memo EXCEPT
                     !.between = @ \/ last.image_path # memo.image_path
                                   \/ last.style # memo.style,
                     !.later = TRUE]

NextRepeat ==
    \/ \E image_path \in ImagePaths, style \in StyleInputs, room_type \in RoomTypes,
          dimensions \in DimensionInputs, um \in UseMockInputs, e \in Entropy :
        \E caption \in IF ResolveUseMock(um[1], um[2]) THEN {NotAsked}
                       ELSE RepeatCaptionOutcomes :
            CallGenerateDesign(image_path, style, room_type, dimensions, um[1], um[2],
                               e[1], e[2], caption)
    \/ GenerateDesign /\ Remember

SpecRepeat == Init /\ [][NextRepeat]_vars

-----------------------------------------------------------------------------
(* Callers of generate_design over the spellings of the style names and    *)
(* over room dimensions around the thresholds of the placement logic.      *)

\* the registered names in several letter cases, with and without
\* surrounding whitespace, and two names that are not registered
StyleSpellings ==
    { "Modern", "MODERN", " modern ",
      "Traditional", "tRADITIONAL", "traditional  ",
      "Minimalist", "\tminimalist\n", "MINIMALIST",
      "Bohemian", "bOhEmIaN", "  BOHEMIAN",
      "Haveli", " haveli ", "hAVELI",
      "NotAStyle", "" }

\* length and width in tenths of a foot; 0 is an entry that is not supplied
RoomDimensions ==
    { NoDimensions,
      [length |-> 150, width |-> 0],
      [length |-> 0, width |-> 120],
      [length |-> 100, width |-> 65],
      [length |-> 115, width |-> 65],
      [length |-> 105, width |-> 95],
      [length |-> 100, width |-> 100],
      [length |-> 125, width |-> 120],
      [length |-> 123, width |-> 123],
      [length |-> 125, width |-> 125],
      [length |-> 150, width |-> 120],
      [length |-> 200, width |-> 100],
      [length |-> 200, width |-> 120] }

RoomModes == {<<"True", "NoAppContext">>, <<"False", "True">>}

RoomCaptionOutcomes == {Returns(<< [generated_text |-> "a living room with a sofa"] >>)}

NextRooms ==
    \/ \E image_path \in ExistingFiles, style \in StyleSpellings,
          dimensions \in RoomDimensions, um \in RoomModes :
        \E caption \in IF ResolveUseMock(um[1], um[2]) THEN {NotAsked}
                       ELSE RoomCaptionOutcomes :
            CallGenerateDesign(image_path, style, "Living Room", dimensions,
                               um[1], um[2], "uuid-1", 12, caption)
    \/ GenerateDesign /\ UNCHANGED memo

SpecRooms == Init /\ [][NextRooms]_vars

-----------------------------------------------------------------------------
(* Request threads in _mock_generate.  The generator is shared by all      *)
(* threads of the process (app.run(threaded=True)); a thread can be        *)
(* preempted between any two statements, so each statement that touches    *)
(* the generator is a step of its own.                                     *)

NumMockThreads == 2
MockThreads == 1..NumMockThreads

\* calls of _mock_generate started in a run
MaxMockCalls == 2

MockPaths == ExistingFiles
MockStyles == {"Modern", "Bohemian"}

IdleMock ==
    [pc |-> "idle", image_path |-> "", style |-> "", outs |-> <<>>,
     result |-> NoResult]

\* the statements that draw, in order, and the stage that follows each
NextStage(stage) ==
    CASE stage = "n_items" -> "sample"
      [] stage = "sample" -> "meta"
      [] stage = "meta" -> "colors"
      [] stage = "colors" -> "light"
      [] stage = "light" -> "budget"
      [] stage = "budget" -> "done"

\* how many outputs the statement of a stage draws
StageDraws(stage, style, outs) ==
    CASE stage = "n_items" -> 1
      [] stage = "sample" -> NItems(GetStyleData(style), outs)
      [] stage = "meta" -> 2
      [] stage = "colors" -> Len(GetStyleData(style).color_scheme)
      [] stage = "light" -> 1
      [] stage = "budget" -> 2

RECURSIVE DrawN(_, _, _)
DrawN(state, k, outs) ==
    IF k = 0 THEN [rng |-> state, outs |-> outs]
    ELSE DrawN(RngNext(state), k - 1, Append(outs, RngNext(state)))

\* a request thread enters _mock_generate
MockCall(t, image_path, style) ==
    /\ mt[t].pc \in {"idle", "done"}
    /\ ncalls < MaxMockCalls
    /\ ncalls' = ncalls + 1
    /\ mt' = [mt EXCEPT ![t] = [pc |-> "seed", image_path |-> image_path,
                                style |-> style, outs |-> <<>>,
                                result |-> NoResult]]
    /\ UNCHANGED <<server, fs, tts, hex, rng, last, memo, voice_agent, chains, memory, vt>>

\* random.seed(len(image_path) + len(style))
MockSeed(t) ==
    /\ mt[t].pc = "seed"
    /\ rng' = Reseed(rng, mt[t].image_path, mt[t].style)
    /\ mt' = [mt EXCEPT ![t].pc = "n_items"]
    /\ UNCHANGED <<server, fs, tts, hex, last, memo, voice_agent, chains, memory, vt, ncalls>>

\* the next drawing statement; after the last one the result is returned
MockDraw(t) ==
    /\ mt[t].pc \in {"n_items", "sample", "meta", "colors", "light", "budget"}
    /\ \E d \in {DrawN(rng, StageDraws(mt[t].pc, mt[t].style, mt[t].outs),
                       mt[t].outs)} :
        /\ rng' = d.rng
        /\ mt' = [mt EXCEPT
                    ![t].pc = NextStage(@),
                    ![t].outs = d.outs,
                    ![t].result =
                        IF NextStage(mt[t].pc) = "done"
                        THEN MockResult(mt[t].image_path, mt[t].style, "Living Room",
                                        NoDimensions, d.outs, "uuid-1")
                        ELSE NoResult]
    /\ UNCHANGED <<server, fs, tts, hex, last, memo, voice_agent, chains, memory, vt, ncalls>>

InitMockConc ==
    /\ InitFiles
    /\ rng \in RngStartStates
    /\ last = NoCall
    /\ memo = NoMemo
    /\ mt = [t \in MockThreads |-> IdleMock]
    /\ voice_agent = 0
    /\ chains = <<>>
    /\ memory = <<>>
    /\ vt = <<>>
    /\ ncalls = 0

NextMockConc ==
    \E t \in MockThreads :
        \/ \E image_path \in MockPaths, style \in MockStyles :
            MockCall(t, image_path, style)
        \/ MockSeed(t)
        \/ MockDraw(t)

SpecMockConc == InitMockConc /\ [][NextMockConc]_vars

-----------------------------------------------------------------------------
(* VoiceAgent                                                              *)

\* DESIGN_FAQ, in registration order
DESIGN_FAQ ==
    << [keyword |-> "vastu", answer |-> "Vastu Shastra recommends placing the main entrance facing north or east"],
       [keyword |-> "color living", answer |-> "For living rooms, warm neutrals like ivory and beige"],
       [keyword |-> "small room", answer |-> "For small rooms: use mirrors, multifunctional furniture"],
       [keyword |-> "bedroom sleep", answer |-> "For better sleep, avoid bright colours"],
       [keyword |-> "kitchen", answer |-> "For modular kitchens, the work triangle"],
       [keyword |-> "budget", answer |-> "A 2BHK full interior in India typically costs"],
       [keyword |-> "plants", answer |-> "Indoor plants like Monstera, Peace Lily, and Snake Plant"] >>

\* VoiceAgent.LANG_GREETINGS
LANG_GREETINGS ==
    "en" :> "Hello! I am Gruha Alankara's interior design assistant. How can I help you?"
    @@ "hi" :> "Namaste! (the Hindi greeting)"
    @@ "te" :> "Namaskaram! (the Telugu greeting)"

\* self.LANG_GREETINGS.get(language, self.LANG_GREETINGS["en"])
Greeting(language) ==
    IF language \in DOMAIN LANG_GREETINGS
    THEN LANG_GREETINGS[language]
    ELSE LANG_GREETINGS["en"]

\* for keyword, answer in DESIGN_FAQ.items(): if keyword in query_lower: ... break
RECURSIVE FaqScan(_, _)
FaqScan(query_lower, i) ==
    IF i > Len(DESIGN_FAQ) THEN [matched |-> FALSE, answer |-> ""]
    ELSE IF StrContains(DESIGN_FAQ[i].keyword, query_lower)
    THEN [matched |-> TRUE, answer |-> DESIGN_FAQ[i].answer]
    ELSE FaqScan(query_lower, i + 1)

\* the scan without query_lower = query.lower()
FaqLookupCaseSensitive(query) == FaqScan(query, 1)

\* answer: query_lower = query.lower(), then the scan
FaqLookup(query) == FaqScan(StrLower(query), 1)

AnyIn(words, query) == \E w \in words : StrContains(w, query)

\* the furniture bucket tested before the colour bucket
FallbackAnswerFurnitureFirst(query) ==
    IF AnyIn({"furniture", "sofa", "bed", "chair"}, query)
    THEN "When selecting furniture, consider the room's proportion first"
    ELSE IF AnyIn({"color", "colour", "paint"}, query)
    THEN "Warm neutrals like ivory, beige, and warm white work well"
    ELSE IF AnyIn({"light", "lamp", "brightness"}, query)
    THEN "Layer your lighting: ambient, task, and accent"
    ELSE "Thank you for your question! Gruha Alankara's AI specialises in interior design"

\* VoiceAgent._fallback_answer
FallbackAnswer(query) ==
    IF AnyIn({"color", "colour", "paint"}, query)
    THEN "Warm neutrals like ivory, beige, and warm white work well"
    ELSE IF AnyIn({"furniture", "sofa", "bed", "chair"}, query)
    THEN "When selecting furniture, consider the room's proportion first"
    ELSE IF AnyIn({"light", "lamp", "brightness"}, query)
    THEN "Layer your lighting: ambient, task, and accent"
    ELSE "Thank you for your question! Gruha Alankara's AI specialises in interior design"

\* the test with a threshold of one token
ShortQueryOneToken(query) == SplitCount(StrStrip(query)) <= 1

\* len(query.strip().split()) <= 2
ShortQuery(query) == SplitCount(StrStrip(query)) <= 2

\* the responses the conversational session is configured with
LLMResponses ==
    { "Based on Vastu Shastra and modern design principles, I recommend...",
      "For your room, I suggest a warm colour palette with natural materials...",
      "A great starting point is to identify your focal wall and build outward..." }

\* the request threads of the threaded server that are in the voice endpoint
VoiceThreads == {1, 2}

\* calls of get_voice_agent().answer(...) started in a run
MaxVoiceCalls == 2

Queries ==
    { "", "Hi", "small room", "VASTU tips for my kitchen",
      "Which sofa colour suits best", "How do I arrange my hall" }

Languages == {"en", "hi", "te", "zz"}

IdleVoice ==
    [pc |-> "idle", query |-> "", language |-> "", agent |-> 0, chain |-> 0,
     response |-> "", tier_response |-> "",
     built |-> FALSE, invoked |-> FALSE, llm_error |-> FALSE, raised |-> FALSE]

\* answer: the greeting replaces the response of a short query; return response
Post(thread, response) ==
    [thread EXCEPT !.pc = "done",
                   !.tier_response = response,
                   !.response = IF ShortQuery(thread.query)
                                THEN Greeting(thread.language)
                                ELSE response]

\* answer: response = self._fallback_answer(query_lower)
Fallback(thread) == Post(thread, FallbackAnswer(StrLower(thread.query)))

\* a request thread calls get_voice_agent().answer(query, language)
VoiceCall(t, query, language) ==
    /\ vt[t].pc \in {"idle", "done"}
    /\ ncalls < MaxVoiceCalls
    /\ ncalls' = ncalls + 1
    /\ vt' = [vt EXCEPT ![t] = [IdleVoice EXCEPT !.pc = "get_agent",
                                                 !.query = query,
                                                 !.language = language]]
    /\ UNCHANGED <<server, fs, tts, hex, rng, last, memo, mt, voice_agent, chains, memory>>

\* get_voice_agent: if _voice_agent is None
GetAgentCheck(t) ==
    /\ vt[t].pc = "get_agent"
    /\ vt' = [vt EXCEPT ![t].pc = IF voice_agent = 0 THEN "new_agent"
                                  ELSE "return_agent"]
    /\ UNCHANGED <<server, fs, tts, hex, rng, last, memo, mt, voice_agent, chains, memory, ncalls>>

\* get_voice_agent: _voice_agent = VoiceAgent(), whose _chain is None
NewAgent(t) ==
    /\ vt[t].pc = "new_agent"
    /\ chains' = Append(chains, 0)
    /\ voice_agent' = Len(chains) + 1
    /\ vt' = [vt EXCEPT ![t].pc = "return_agent"]
    /\ UNCHANGED <<server, fs, tts, hex, rng, last, memo, mt, memory, ncalls>>

\* get_voice_agent: return _voice_agent
ReturnAgent(t) ==
    /\ vt[t].pc = "return_agent"
    /\ vt' = [vt EXCEPT ![t].agent = voice_agent, ![t].pc = "answer"]
    /\ UNCHANGED <<server, fs, tts, hex, rng, last, memo, mt, voice_agent, chains, memory, ncalls>>

\* the greeting returned for a short query before any tier is tried
AnswerFaqGreetsFirst(t) ==
    /\ vt[t].pc = "answer"
    /\ \E m \in {FaqLookup(vt[t].query)} :
        vt' = [vt EXCEPT ![t] =
                 IF m.matched \/ ShortQuery(vt[t].query) THEN Post(vt[t], m.answer)
                 ELSE IF chains[vt[t].agent] # 0
                 THEN [vt[t] EXCEPT !.pc = "build_return"]
                 ELSE [vt[t] EXCEPT !.pc = "build_try"]]
    /\ UNCHANGED <<server, fs, tts, hex, rng, last, memo, mt, voice_agent, chains, memory, ncalls>>

\* answer: the scan of DESIGN_FAQ over the lower-cased query; on a match the
\* call finishes, otherwise _build_chain tests self._chain
AnswerFaq(t) ==
    /\ vt[t].pc = "answer"
    /\ \E m \in {FaqLookup(vt[t].query)} :
        vt' = [vt EXCEPT ![t] =
                 IF m.matched THEN Post(vt[t], m.answer)
                 ELSE IF chains[vt[t].agent] # 0
                 THEN [vt[t] EXCEPT !.pc = "build_return"]
                 ELSE [vt[t] EXCEPT !.pc = "build_try"]]
    /\ UNCHANGED <<server, fs, tts, hex, rng, last, memo, mt, voice_agent, chains, memory, ncalls>>

\* _build_chain: the try block constructs the session and stores it, or an
\* exception is caught and None is stored
BuildTry(t) ==
    /\ vt[t].pc = "build_try"
    /\ \/ /\ memory' = Append(memory, 0)
          /\ chains' = [chains EXCEPT ![vt[t].agent] = Len(memory) + 1]
          /\ vt' = [vt EXCEPT ![t].pc = "build_return", ![t].built = TRUE]
       \/ /\ chains' = [chains EXCEPT ![vt[t].agent] = 0]
          /\ vt' = [vt EXCEPT ![t].pc = "build_return"]
          /\ UNCHANGED memory
    /\ UNCHANGED <<server, fs, tts, hex, rng, last, memo, mt, voice_agent, ncalls>>

\* _build_chain: return self._chain; answer: if chain ... else the fallback
BuildReturn(t) ==
    /\ vt[t].pc = "build_return"
    /\ vt' = [vt EXCEPT ![t] =
                IF chains[vt[t].agent] # 0
                THEN [vt[t] EXCEPT !.chain = chains[vt[t].agent], !.pc = "predict"]
                ELSE Fallback(vt[t])]
    /\ UNCHANGED <<server, fs, tts, hex, rng, last, memo, mt, voice_agent, chains, memory, ncalls>>

\* chain.predict called outside a try block
PredictRaisedPropagates(thread) ==
    [thread EXCEPT !.pc = "done", !.raised = TRUE]

\* answer: except Exception around chain.predict
PredictRaised(thread) == Fallback(thread)

\* answer: chain.predict(input=query) returns a response, which the session
\* adds to its memory, or raises
Predict(t) ==
    /\ vt[t].pc = "predict"
    /\ \/ \E text \in LLMResponses :
            /\ memory' = [memory EXCEPT ![vt[t].chain] = @ + 1]
            /\ vt' = [vt EXCEPT ![t] = Post([vt[t] EXCEPT !.invoked = TRUE], text)]
       \/ /\ vt' = [vt EXCEPT ![t] = PredictRaised([vt[t] EXCEPT !.invoked = TRUE,
                                                                !.llm_error = TRUE])]
          /\ UNCHANGED memory
    /\ UNCHANGED <<server, fs, tts, hex, rng, last, memo, mt, voice_agent, chains, ncalls>>

InitVoice ==
    /\ InitFiles
    /\ rng = 7
    /\ last = NoCall
    /\ memo = NoMemo
    /\ mt = <<>>
    /\ voice_agent = 0
    /\ chains = <<>>
    /\ memory = <<>>
    /\ vt = [t \in VoiceThreads |-> IdleVoice]
    /\ ncalls = 0

NextVoice ==
    \E t \in VoiceThreads :
        \/ \E query \in Queries, language \in Languages : VoiceCall(t, query, language)
        \/ GetAgentCheck(t)
        \/ NewAgent(t)
        \/ ReturnAgent(t)
        \/ AnswerFaq(t)
        \/ BuildTry(t)
        \/ BuildReturn(t)
        \/ Predict(t)

SpecVoice == InitVoice /\ [][NextVoice]_vars

\* One request thread asking about colours, furniture and lighting: queries
\* with words of several buckets, a bucket word inside a longer word, short
\* queries, and one query with an FAQ keyword.
TierQueries ==
    { "Hi", "paint", "Which PAINT for my chair", "Need a lamp near the bed",
      "Is more brightness good here", "What a delightful old house",
      "Best colour of lamp shade", "How do I arrange my hall",
      "kitchen on a budget please" }

TierThreads == {1}

NextTiers ==
    \E t \in TierThreads :
        \/ \E query \in TierQueries, language \in Languages : VoiceCall(t, query, language)
        \/ GetAgentCheck(t)
        \/ NewAgent(t)
        \/ ReturnAgent(t)
        \/ AnswerFaq(t)
        \/ BuildTry(t)
        \/ BuildReturn(t)
        \/ Predict(t)

SpecTiers == InitVoice /\ [][NextTiers]_vars

-----------------------------------------------------------------------------
(* TTSEngine.synthesize.  gtts is what the speech library does in the call: *)
(* its import raises, the construction of the synthesizer or the save      *)
(* raises, or the audio is saved.                                          *)

\* str.replace(old, new): every occurrence, left to right
RECURSIVE StrReplace(_, _, _)
StrReplace(s, old, new) ==
    IF Len(s) < Len(old) THEN s
    ELSE IF SubSeq(s, 1, Len(old)) = old
    THEN new \o StrReplace(SubSeq(s, Len(old) + 1, Len(s)), old, new)
    ELSE SubSeq(s, 1, 1) \o StrReplace(SubSeq(s, 2, Len(s)), old, new)

\* os.path.join(a, b)
PathJoin(a, b) ==
    IF b # "" /\ SubSeq(b, 1, 1) = "/" THEN b
    ELSE IF a = "" \/ SubSeq(a, Len(a), Len(a)) = "/" THEN a \o b
    ELSE a \o "/" \o b

\* positions of the separators of a path
Slashes(path) == {i \in 1..Len(path) : SubSeq(path, i, i) = "/"}

Max(S) == CHOOSE x \in S : \A y \in S : y <= x

\* a directory path without trailing separators
RECURSIVE DirKey(_)
DirKey(path) ==
    IF Len(path) > 1 /\ SubSeq(path, Len(path), Len(path)) = "/"
    THEN DirKey(SubSeq(path, 1, Len(path) - 1))
    ELSE path

\* the directory a file path lies in
Dirname(path) ==
    IF Slashes(path) = {} THEN ""
    ELSE IF Max(Slashes(path)) = 1 THEN "/"
    ELSE DirKey(SubSeq(path, 1, Max(Slashes(path)) - 1))

\* the last component of a path
Basename(path) ==
    IF Slashes(path) = {} THEN path
    ELSE SubSeq(path, Max(Slashes(path)) + 1, Len(path))

\* the directory not created
MakedirsSkipped(dirs, output_dir) == dirs

\* os.makedirs(output_dir, exist_ok=True): the directory and its ancestors
Makedirs(dirs, output_dir) ==
    dirs \cup {DirKey(output_dir)}
         \cup {SubSeq(output_dir, 1, i - 1) : i \in Slashes(DirKey(output_dir)) \ {1}}

\* a file can be written where its directory exists
CanWrite(files_system, path) ==
    /\ Dirname(path) \in files_system.dirs
    /\ path \notin files_system.dirs

WriteFile(files_system, path, content) ==
    [files_system EXCEPT !.files = (path :> content) @@ files_system.files]

\* TTSEngine.SUPPORTED_LANGS
SUPPORTED_LANGS ==
    "en" :> "en" @@ "hi" :> "hi" @@ "te" :> "te"
    @@ "english" :> "en" @@ "hindi" :> "hi" @@ "telugu" :> "te"

\* the lookup without language.lower()
ResolveLanguageCaseSensitive(language) ==
    IF language \in DOMAIN SUPPORTED_LANGS THEN SUPPORTED_LANGS[language] ELSE "en"

\* self.SUPPORTED_LANGS.get(language.lower(), "en")
ResolveLanguage(language) ==
    IF StrLower(language) \in DOMAIN SUPPORTED_LANGS
    THEN SUPPORTED_LANGS[StrLower(language)]
    ELSE "en"

\* (filename or f"tts_{uuid.uuid4().hex[:12]}") + ".mp3"
Fname(filename, uuid_hex) ==
    (IF filename = None \/ filename = "" THEN "tts_" \o StrPrefix(uuid_hex, 12)
     ELSE filename) \o ".mp3"

\* f"[TTS placeholder] lang={lang_code}\n{text}"
Placeholder(lang_code, text) == "[TTS placeholder] lang=" \o lang_code \o "\n" \o text

\* every exception of the library treated as its absence
EveryErrorIsImportError(error) == TRUE

\* except ImportError, which also catches its subclass ModuleNotFoundError
IsImportError(error) == error \in {"ImportError", "ModuleNotFoundError"}

\* The call on file system files_system: the file system it leaves, how it
\* ends (returned, or the exception raised), the path returned and the
\* language code it used.
SynthesizeCall(files_system, text, language, output_dir, filename, uuid_hex, gtts) ==
    LET lang_code == ResolveLanguage(language)
        out_path == PathJoin(output_dir, Fname(filename, uuid_hex))
        made == [files_system EXCEPT !.dirs = Makedirs(files_system.dirs, output_dir)]
        txt_path == StrReplace(out_path, ".mp3", ".txt")
    IN  IF gtts.kind = "return"
        THEN IF CanWrite(made, out_path)
             THEN [fs |-> WriteFile(made, out_path, gtts.value), outcome |-> "returned",
                   path |-> out_path, lang_code |-> lang_code]
             ELSE [fs |-> made, outcome |-> "RuntimeError", path |-> "",
                   lang_code |-> lang_code]
        ELSE IF IsImportError(gtts.error)
        THEN IF CanWrite(made, txt_path)
             THEN [fs |-> WriteFile(made, txt_path, Placeholder(lang_code, text)),
                   outcome |-> "returned", path |-> txt_path, lang_code |-> lang_code]
             ELSE [fs |-> made, outcome |-> "FileNotFoundError", path |-> "",
                   lang_code |-> lang_code]
        ELSE [fs |-> made, outcome |-> "RuntimeError", path |-> "",
              lang_code |-> lang_code]

\* calls of synthesize started in a run
MaxTtsCalls == 2

TtsTexts == {"Welcome to Gruha Alankara"}

TtsLanguages == {"en", "HI", "Telugu", "ENGLISH", "zz", " hi"}

OutputDirs == {"/tmp", "/tmp/voice.mp3", "/srv/audio/"}

Filenames == {None, "custom_test", "intro.mp3"}

GttsOutcomes ==
    {Raises("ImportError"), Raises("ModuleNotFoundError"), Raises("ValueError"),
     Raises("gTTSError"), Returns("mp3 audio")}

\* a caller invokes get_tts_engine().synthesize(...); the environment fixes
\* what uuid4 and the speech library will give
CallSynthesize(text, language, output_dir, filename, gtts) ==
    /\ tts.outcome # "pending"
    /\ ncalls < MaxTtsCalls
    /\ ncalls' = ncalls + 1
    /\ tts' = [text |-> text, language |-> language, output_dir |-> output_dir,
               filename |-> filename, uuid_hex |-> "9f1c2ab47d3e4c5f8a6b0d1e2f3a4b5c",
               gtts |-> gtts, outcome |-> "pending", path |-> "", lang_code |-> ""]
    /\ UNCHANGED <<server, fs, hex, rng, last, memo, mt, voice_agent, chains, memory, vt>>

\* synthesize runs, start to end
Synthesize ==
    /\ tts.outcome = "pending"
    /\ \E r \in {SynthesizeCall(fs, tts.text, tts.language, tts.output_dir,
                                tts.filename, tts.uuid_hex, tts.gtts)} :
        /\ fs' = r.fs
        /\ tts' = [tts EXCEPT !.outcome = r.outcome, !.path = r.path,
                              !.lang_code = r.lang_code]
    /\ UNCHANGED <<server, hex, rng, last, memo, mt, voice_agent, chains, memory, vt, ncalls>>

NextTts ==
    \/ \E text \in TtsTexts, language \in TtsLanguages, output_dir \in OutputDirs,
          filename \in Filenames, gtts \in GttsOutcomes :
        CallSynthesize(text, language, output_dir, filename, gtts)
    \/ Synthesize

SpecTts == Init /\ [][NextTts]_vars

-----------------------------------------------------------------------------
(* Direct calls of _hex_to_rgb                                             *)

\* longest input string
MaxHexLen == 7

\* the marker, hexadecimal digits in both cases, and a letter that is none
HexAlphabet == {"#", "0", "a", "F", "g"}

\* the strings over HexAlphabet of length at most n
RECURSIVE HexStrings(_)
HexStrings(n) ==
    IF n = 0 THEN {""}
    ELSE LET shorter == HexStrings(n - 1)
         IN  shorter \cup {s \o c : s \in shorter, c \in HexAlphabet}

HexInputs == HexStrings(MaxHexLen)

\* _hex_to_rgb(hex_color) runs
HexToRgbRun ==
    /\ hex.outcome = "pending"
    /\ \E r \in {HexToRgb(hex.input)} :
        hex' = IF "kind" \in DOMAIN r
               THEN [input |-> hex.input, outcome |-> r.error, value |-> NoResult]
               ELSE [input |-> hex.input, outcome |-> "returned", value |-> r]
    /\ UNCHANGED <<server, fs, tts, rng, last, memo, mt, voice_agent, chains, memory, vt, ncalls>>

InitHex ==
    /\ rng = 7
    /\ last = NoCall
    /\ memo = NoMemo
    /\ mt = <<>>
    /\ voice_agent = 0
    /\ chains = <<>>
    /\ memory = <<>>
    /\ vt = <<>>
    /\ ncalls = 0
    /\ InitServer
    /\ fs = [dirs |-> {"/", "/tmp"}, files |-> <<>>]
    /\ tts = [outcome |-> "none"]
    /\ hex \in {[input |-> s, outcome |-> "pending"] : s \in HexInputs}

NextHex == HexToRgbRun

SpecHex == InitHex /\ [][NextHex]_vars

-----------------------------------------------------------------------------
(* The ask_voice handler (voice.py): the text answer from the agent, then  *)
(* the audio from the speech engine.  session is what the conversational   *)
(* session does when the call reaches it: langchain cannot be imported,    *)
(* predict raises, or predict returns a response.                          *)

\* calls of ask_voice started in a run
MaxAskCalls == 2

\* TestingConfig.AUDIO_FOLDER
AUDIO_FOLDER == "/tmp/gruha_test_audio"

\* current_app.config.get("SUPPORTED_LANGUAGES", {...})
SUPPORTED_LANGUAGES ==
    "english" :> "en" @@ "telugu" :> "te" @@ "hindi" :> "hi"
    @@ "en" :> "en" @@ "te" :> "te" @@ "hi" :> "hi"

\* supported.get(data.get("language", "english").lower().strip(), "en")
AskLangCode(language) ==
    IF StrStrip(StrLower(language)) \in DOMAIN SUPPORTED_LANGUAGES
    THEN SUPPORTED_LANGUAGES[StrStrip(StrLower(language))]
    ELSE "en"

\* get_voice_agent().answer(query, language) run without interruption on
\* the agent state (va, ch, mem): the state it leaves and the response
AnswerCall(va, ch, mem, query, language, session) ==
    LET ch1 == IF va = 0 THEN Append(ch, 0) ELSE ch
        va1 == IF va = 0 THEN Len(ch) + 1 ELSE va
        m == FaqLookup(query)
        build == ~m.matched /\ ch1[va1] = 0 /\ session # "no langchain"
        mem1 == IF build THEN Append(mem, 0) ELSE mem
        ch2 == IF build THEN [ch1 EXCEPT ![va1] = Len(mem) + 1] ELSE ch1
        invoke == ~m.matched /\ ch2[va1] # 0
        returned == invoke /\ session \in LLMResponses
        tier == IF m.matched THEN m.answer
                ELSE IF returned THEN session
                ELSE FallbackAnswer(StrLower(query))
    IN  [voice_agent |-> va1,
         chains |-> ch2,
         memory |-> IF returned THEN [mem1 EXCEPT ![ch2[va1]] = @ + 1] ELSE mem1,
         response |-> IF ShortQuery(query) THEN Greeting(language) ELSE tier]

\* the handler's except clause around the audio step, RuntimeError left out
AskCatchesNoRuntimeError(error) == error # "RuntimeError"

\* except Exception around the audio step
AskCatches(error) == TRUE

\* ask_voice from the sanitised query on.  agent_raises: the import of the
\* agent or the call of answer raises.
AskVoiceCall(files_system, va, ch, mem, raw_query, language, want_audio, agent_raises, session, uuid_hex, gtts) ==
    LET lang_code == AskLangCode(language)
        a == AnswerCall(va, ch, mem, raw_query, lang_code, session)
        answer == IF agent_raises THEN "I'm having trouble processing your request right now."
                  ELSE a.response
        made == [files_system EXCEPT !.dirs = Makedirs(files_system.dirs, AUDIO_FOLDER)]
        s == SynthesizeCall(made, answer, lang_code, AUDIO_FOLDER, None, uuid_hex, gtts)
        agent == IF agent_raises
                 THEN [voice_agent |-> va, chains |-> ch, memory |-> mem]
                 ELSE [voice_agent |-> a.voice_agent, chains |-> a.chains,
                       memory |-> a.memory]
        ok(audio_url, audio_filename) ==
            [status |-> 200, success |-> TRUE, query |-> raw_query, answer |-> answer,
             language |-> lang_code, audio_url |-> audio_url,
             audio_filename |-> audio_filename, audio_available |-> audio_url # None]
    IN  IF raw_query = ""
        THEN [fs |-> files_system, agent |-> [voice_agent |-> va, chains |-> ch, memory |-> mem],
              text |-> "", synthesis |-> "not called",
              response |-> [status |-> 400, success |-> FALSE]]
        ELSE IF ~want_audio
        THEN [fs |-> files_system, agent |-> agent, text |-> answer,
              synthesis |-> "not called", response |-> ok(None, None)]
        ELSE IF s.outcome = "returned"
        THEN [fs |-> s.fs, agent |-> agent, text |-> answer, synthesis |-> s.path,
              response |-> ok("/api/voice/audio/" \o Basename(s.path), Basename(s.path))]
        ELSE IF AskCatches(s.outcome)
        THEN [fs |-> s.fs, agent |-> agent, text |-> answer, synthesis |-> s.outcome,
              response |-> ok(None, None)]
        ELSE [fs |-> s.fs, agent |-> agent, text |-> answer, synthesis |-> s.outcome,
              response |-> [status |-> 500, success |-> FALSE]]

AskQueries == {"", "Hi", "VASTU tips for my kitchen", "Which sofa colour suits best"}

AskLanguages == {"english", " Hindi", "tamil"}

AskSessions ==
    {"no langchain", "predict raises",
     "For your room, I suggest a warm colour palette with natural materials..."}

AskGtts == {Raises("ImportError"), Raises("gTTSError"), Returns("mp3 audio")}

\* a client posts to /api/voice/ask; the environment fixes what the session
\* and the speech library will do
CallAskVoice(raw_query, language, want_audio, agent_raises, session, gtts) ==
    /\ ask.outcome # "pending"
    /\ ncalls < MaxAskCalls
    /\ session = "no langchain" => \A i \in DOMAIN chains : chains[i] = 0
    /\ ncalls' = ncalls + 1
    /\ ask' = [raw_query |-> raw_query, language |-> language,
               want_audio |-> want_audio, agent_raises |-> agent_raises,
               session |-> session, gtts |-> gtts,
               uuid_hex |-> "9f1c2ab47d3e4c5f8a6b0d1e2f3a4b5c",
               outcome |-> "pending", text |-> "", synthesis |-> "",
               response |-> [status |-> 0, success |-> FALSE]]
    /\ UNCHANGED <<kb_tips, held, db_used, qt, bookings, bt, fs, tts, hex, rng, last,
                   memo, mt, voice_agent, chains, memory, vt>>

\* ask_voice runs, start to end
AskVoice ==
    /\ ask.outcome = "pending"
    /\ \E r \in {AskVoiceCall(fs, voice_agent, chains, memory, ask.raw_query, ask.language,
                              ask.want_audio, ask.agent_raises, ask.session,
                              ask.uuid_hex, ask.gtts)} :
        /\ fs' = r.fs
        /\ voice_agent' = r.agent.voice_agent
        /\ chains' = r.agent.chains
        /\ memory' = r.agent.memory
        /\ ask' = [ask EXCEPT !.outcome = "responded", !.text = r.text,
                              !.synthesis = r.synthesis, !.response = r.response]
    /\ UNCHANGED <<kb_tips, held, db_used, qt, bookings, bt, tts, hex, rng, last,
                   memo, mt, vt, ncalls>>

NextAsk ==
    \/ \E raw_query \in AskQueries, language \in AskLanguages, want_audio \in BOOLEAN,
          agent_raises \in BOOLEAN, session \in AskSessions, gtts \in AskGtts :
        CallAskVoice(raw_query, language, want_audio, agent_raises, session, gtts)
    \/ AskVoice

SpecAsk == Init /\ [][NextAsk]_vars

-----------------------------------------------------------------------------
(* The design-generate handler behind ai_quota_required (design.py,        *)
(* security.py, user.py).  Every request works on its own session: the     *)
(* decorator reads the user's row, the handler's first commit expires it,  *)
(* consume_ai_quota reads it again and the last commit writes it.          *)

\* users.ai_analyses_limit, the column default
AI_ANALYSES_LIMIT == 5

\* requests started in a run
MaxQuotaRequests == 3

\* the request threads of the threaded server that serve one user's
\* design-generate requests
QuotaThreads == {1, 2}

IdleQuota == [pc |-> "idle", used |-> 0, status |-> 0]

\* User.has_ai_quota
HasAiQuota(used, limit) == used < limit

\* a client posts to /api/design/generate
QuotaRequest(t) ==
    /\ qt[t].pc \in {"idle", "done"}
    /\ ncalls < MaxQuotaRequests
    /\ ncalls' = ncalls + 1
    /\ qt' = [qt EXCEPT ![t] = [IdleQuota EXCEPT !.pc = "check"]]
    /\ UNCHANGED <<kb_tips, held, ask, db_used, bookings, bt, fs, tts, hex, rng, last,
                   memo, mt, voice_agent, chains, memory, vt>>

\* ai_quota_required: 429 unless current_user.has_ai_quota
QuotaCheck(t) ==
    /\ qt[t].pc = "check"
    /\ qt' = [qt EXCEPT ![t] =
                IF HasAiQuota(db_used.used, db_used.limit)
                THEN [qt[t] EXCEPT !.pc = "handle"]
                ELSE [qt[t] EXCEPT !.pc = "done", !.status = 429]]
    /\ UNCHANGED <<kb_tips, held, ask, db_used, bookings, bt, fs, tts, hex, rng, last,
                   memo, mt, voice_agent, chains, memory, vt, ncalls>>

\* generate_design, steps 1 to 5: the upload is rejected (400), the save or
\* the insert fails (500), the analysis raises (500), or the analysis
\* returns and the project is marked completed
QuotaHandle(t) ==
    /\ qt[t].pc = "handle"
    /\ \E status \in {400, 500, 200} :
        qt' = [qt EXCEPT ![t] =
                 IF status = 200 THEN [qt[t] EXCEPT !.pc = "consume"]
                 ELSE [qt[t] EXCEPT !.pc = "done", !.status = status]]
    /\ UNCHANGED <<kb_tips, held, ask, db_used, bookings, bt, fs, tts, hex, rng, last,
                   memo, mt, voice_agent, chains, memory, vt, ncalls>>

\* consume_ai_quota: self.ai_analyses_used = (self.ai_analyses_used or 0) + 1,
\* on the row as the session loads it now
QuotaConsume(t) ==
    /\ qt[t].pc = "consume"
    /\ qt' = [qt EXCEPT ![t].used = db_used.used + 1, ![t].pc = "commit"]
    /\ UNCHANGED <<kb_tips, held, ask, db_used, bookings, bt, fs, tts, hex, rng, last,
                   memo, mt, voice_agent, chains, memory, vt, ncalls>>

\* db.session.commit(): the completed project and the user's row are written
QuotaCommit(t) ==
    /\ qt[t].pc = "commit"
    /\ db_used' = [db_used EXCEPT !.used = qt[t].used, !.completed = @ + 1]
    /\ qt' = [qt EXCEPT ![t].pc = "done", ![t].status = 200]
    /\ UNCHANGED <<kb_tips, held, ask, bookings, bt, fs, tts, hex, rng, last,
                   memo, mt, voice_agent, chains, memory, vt, ncalls>>

\* one user whose counter agrees with the analyses completed so far
InitQuota ==
    /\ rng = 7
    /\ last = NoCall
    /\ memo = NoMemo
    /\ mt = <<>>
    /\ voice_agent = 0
    /\ chains = <<>>
    /\ memory = <<>>
    /\ vt = <<>>
    /\ ncalls = 0
    /\ fs = [dirs |-> {"/", "/tmp"}, files |-> <<>>]
    /\ tts = [outcome |-> "none"]
    /\ hex = [outcome |-> "none"]
    /\ kb_tips = [s \in DOMAIN STYLE_KNOWLEDGE |-> STYLE_KNOWLEDGE[s].tips]
    /\ held = <<>>
    /\ ask = [outcome |-> "none"]
    /\ \E used \in 0..AI_ANALYSES_LIMIT :
        db_used = [used |-> used, limit |-> AI_ANALYSES_LIMIT, completed |-> used]
    /\ qt = [t \in QuotaThreads |-> IdleQuota]
    /\ bookings = <<>>
    /\ bt = <<>>

NextQuota ==
    \E t \in QuotaThreads :
        \/ QuotaRequest(t)
        \/ QuotaCheck(t)
        \/ QuotaHandle(t)
        \/ QuotaConsume(t)
        \/ QuotaCommit(t)

SpecQuota == InitQuota /\ [][NextQuota]_vars

-----------------------------------------------------------------------------
(* create_booking and cancel_booking (booking.py) of one user, served by   *)
(* concurrent request threads over the furniture_bookings table.  The      *)
(* table is declared by the FurnitureBooking model (app.models.booking);   *)
(* whether it carries a unique index on a user's pending bookings of one   *)
(* item is fixed when the run starts, either way.                          *)

\* requests started in a run
MaxBookingRequests == 3

BookingThreads == {1, 2}

\* _CATALOGUE_MAP, by id: whether the item is in stock
CATALOGUE_IN_STOCK ==
    "SOF-MOD-001" :> TRUE @@ "TBL-MOD-003" :> TRUE @@ "SHL-MOD-005" :> FALSE

\* furniture_id as clients send it
FurnitureIdInputs == {"SOF-MOD-001", " sof-mod-001 ", "TBL-MOD-003", "SHL-MOD-005", "XXX-000"}

IdleBooking == [pc |-> "idle", furniture_id |-> "", booking_id |-> 0, status |-> 0]

\* the ids of the pending bookings of furniture_id
PendingFor(rows, furniture_id) ==
    {i \in DOMAIN rows : rows[i].furniture_id = furniture_id /\ rows[i].status = "pending"}

\* a client posts to /api/booking/: furniture_id = data["furniture_id"].strip().upper()
CreateRequest(t, furniture_id) ==
    /\ bt[t].pc \in {"idle", "done"}
    /\ ncalls < MaxBookingRequests
    /\ ncalls' = ncalls + 1
    /\ bt' = [bt EXCEPT ![t] = [IdleBooking EXCEPT
                                  !.pc = "check",
                                  !.furniture_id = StrUpper(StrStrip(furniture_id))]]
    /\ UNCHANGED <<kb_tips, held, ask, db_used, qt, bookings, fs, tts, hex, rng, last,
                   memo, mt, voice_agent, chains, memory, vt>>

\* create_booking up to the duplicate check: 404 for an id not in the
\* catalogue, 409 for an item out of stock, 409 when the query finds a
\* pending booking of the item
CreateCheck(t) ==
    /\ bt[t].pc = "check"
    /\ bt' = [bt EXCEPT ![t] =
                IF bt[t].furniture_id \notin DOMAIN CATALOGUE_IN_STOCK
                THEN [bt[t] EXCEPT !.pc = "done", !.status = 404]
                ELSE IF ~CATALOGUE_IN_STOCK[bt[t].furniture_id]
                THEN [bt[t] EXCEPT !.pc = "done", !.status = 409]
                ELSE IF PendingFor(bookings.rows, bt[t].furniture_id) # {}
                THEN [bt[t] EXCEPT !.pc = "done", !.status = 409]
                ELSE [bt[t] EXCEPT !.pc = "insert"]]
    /\ UNCHANGED <<kb_tips, held, ask, db_used, qt, bookings, fs, tts, hex, rng, last,
                   memo, mt, voice_agent, chains, memory, vt, ncalls>>

\* db.session.add(booking); db.session.commit(): the row is inserted (201),
\* or the index refuses it and IntegrityError is answered with 409
CreateCommit(t) ==
    /\ bt[t].pc = "insert"
    /\ IF bookings.unique_pending /\ PendingFor(bookings.rows, bt[t].furniture_id) # {}
       THEN /\ bt' = [bt EXCEPT ![t].pc = "done", ![t].status = 409]
            /\ UNCHANGED bookings
       ELSE /\ bookings' = [bookings EXCEPT !.rows =
                              Append(@, [furniture_id |-> bt[t].furniture_id,
                                         status |-> "pending"])]
            /\ bt' = [bt EXCEPT ![t].pc = "done", ![t].status = 201,
                                ![t].booking_id = Len(bookings.rows) + 1]
    /\ UNCHANGED <<kb_tips, held, ask, db_used, qt, fs, tts, hex, rng, last,
                   memo, mt, voice_agent, chains, memory, vt, ncalls>>

\* a client posts to /api/booking/<booking_id>/cancel
CancelRequest(t, booking_id) ==
    /\ bt[t].pc \in {"idle", "done"}
    /\ ncalls < MaxBookingRequests
    /\ ncalls' = ncalls + 1
    /\ bt' = [bt EXCEPT ![t] = [IdleBooking EXCEPT !.pc = "load",
                                                   !.booking_id = booking_id]]
    /\ UNCHANGED <<kb_tips, held, ask, db_used, qt, bookings, fs, tts, hex, rng, last,
                   memo, mt, voice_agent, chains, memory, vt>>

\* cancel_booking: first_or_404, then 409 unless the booking is cancellable
CancelLoad(t) ==
    /\ bt[t].pc = "load"
    /\ bt' = [bt EXCEPT ![t] =
                IF bt[t].booking_id \notin DOMAIN bookings.rows
                THEN [bt[t] EXCEPT !.pc = "done", !.status = 404]
                ELSE IF bookings.rows[bt[t].booking_id].status \notin {"pending", "confirmed"}
                THEN [bt[t] EXCEPT !.pc = "done", !.status = 409]
                ELSE [bt[t] EXCEPT !.pc = "cancel"]]
    /\ UNCHANGED <<kb_tips, held, ask, db_used, qt, bookings, fs, tts, hex, rng, last,
                   memo, mt, voice_agent, chains, memory, vt, ncalls>>

\* booking.cancel(reason); db.session.commit()
CancelCommit(t) ==
    /\ bt[t].pc = "cancel"
    /\ bookings' = [bookings EXCEPT !.rows[bt[t].booking_id].status = "cancelled"]
    /\ bt' = [bt EXCEPT ![t].pc = "done", ![t].status = 200]
    /\ UNCHANGED <<kb_tips, held, ask, db_used, qt, fs, tts, hex, rng, last,
                   memo, mt, voice_agent, chains, memory, vt, ncalls>>

InitBooking ==
    /\ rng = 7
    /\ last = NoCall
    /\ memo = NoMemo
    /\ mt = <<>>
    /\ voice_agent = 0
    /\ chains = <<>>
    /\ memory = <<>>
    /\ vt = <<>>
    /\ ncalls = 0
    /\ fs = [dirs |-> {"/", "/tmp"}, files |-> <<>>]
    /\ tts = [outcome |-> "none"]
    /\ hex = [outcome |-> "none"]
    /\ kb_tips = [s \in DOMAIN STYLE_KNOWLEDGE |-> STYLE_KNOWLEDGE[s].tips]
    /\ held = <<>>
    /\ ask = [outcome |-> "none"]
    /\ db_used = <<>>
    /\ qt = <<>>
    /\ \E unique_pending \in BOOLEAN :
        bookings = [rows |-> <<>>, unique_pending |-> unique_pending]
    /\ bt = [t \in BookingThreads |-> IdleBooking]

NextBooking ==
    \E t \in BookingThreads :
        \/ \E furniture_id \in FurnitureIdInputs : CreateRequest(t, furniture_id)
        \/ CreateCheck(t)
        \/ CreateCommit(t)
        \/ \E booking_id \in 1..MaxBookingRequests : CancelRequest(t, booking_id)
        \/ CancelLoad(t)
        \/ CancelCommit(t)

SpecBooking == InitBooking /\ [][NextBooking]_vars

-----------------------------------------------------------------------------
(* Calls compared across image paths and across modes: one mock-mode call  *)
(* is kept whole in memo and compared with the calls that follow it.       *)

ModeImagePaths == {"/uploads/room.jpg", "/uploads/hall.jpg"}

ModeStyles == {"Modern", " haveli "}

ModeUseMock == {<<"True", "NoAppContext">>, <<"False", "True">>}

ModeCaptionOutcomes ==
    {Raises("ImportError"), Raises("RuntimeError"), Returns(<<>>),
     Returns(<< [generated_text |-> "a living room with a sofa"] >>)}

\* everything of a result that is computed from draws of the generator
SeededValues(result) ==
    [furniture |-> result.furniture,
     confidence |-> result.project_meta.confidence,
     processing_time_ms |-> result.project_meta.processing_time_ms,
     coverage |-> [i \in DOMAIN result.color_scheme |->
                      result.color_scheme[i].coverage_percent],
     natural_light_score |-> result.placement.natural_light_score,
     estimated_budget_inr |-> result.estimated_budget_inr]

\* memo is set by one mock-mode call that returned; afterwards it records
\* that a call came after it.
RememberResult ==
    \/ /\ ~memo.set
       /\ last'.outcome = "returned"
       /\ last'.mock
       /\ memo' = [set |-> TRUE, image_path |-> last.image_path,
                   style |-> last.style, room_type |-> last.room_type,
                   dimensions |-> last.dimensions, result |-> last'.result,
                   later |-> FALSE]
    \/ /\ ~memo.set
       /\ memo' = memo
    \/ /\ memo.set
       /\ memo' = [memo EXCEPT !.later = TRUE]

NextModes ==
    \/ \E image_path \in ModeImagePaths, style \in ModeStyles, room_type \in RoomTypes,
          dimensions \in DimensionInputs, um \in ModeUseMock, e \in Entropy :
        \E caption \in IF ResolveUseMock(um[1], um[2]) THEN {NotAsked}
                       ELSE ModeCaptionOutcomes :
            CallGenerateDesign(image_path, style, room_type, dimensions, um[1], um[2],
                               e[1], e[2], caption)
    \/ GenerateDesign /\ RememberResult

SpecModes == Init /\ [][NextModes]_vars

-----------------------------------------------------------------------------
(* Callers that change the results they were handed.  A Python list is an  *)
(* object: kb_tips holds the content of the tips list of each knowledge    *)
(* base entry, and a result's design_tips names the list object it refers  *)
(* to.  Every other container of a result is built by the call itself.     *)

\* results handed out and still held
MaxHeld == 2

\* the longest a tips list is let grow
MaxTips == 4

ShareImagePaths == {"static/uploads/room.jpg"}

ShareStyles == {"Modern", "haveli", "NotAStyle"}

CallerTips == {"Paint everything black"}

\* the knowledge base entry whose "tips" list _get_style_data(style) returns
TipsOwner(style) ==
    IF style \in DOMAIN STYLE_KNOWLEDGE THEN style ELSE DEFAULT_STYLE

\* _get_style_data(style) as the call finds it
StyleDataNow(style) ==
    [GetStyleData(style) EXCEPT !.tips = kb_tips[TipsOwner(style)]]

\* generate_design in mock mode returns a result to a caller who keeps it.
\* "design_tips": style_data["tips"] stores the list itself, not a copy.
ShareGenerate(image_path, style) ==
    /\ Len(held) < MaxHeld
    /\ LET resolved == ResolveStyle(style)
           d == DrawAll(Reseed(rng, image_path, resolved), resolved, <<>>)
           r == MockResultFrom(StyleDataNow(resolved), image_path, resolved,
                               "Living Room", NoDimensions, d.outs, "uuid-1")
       IN  /\ rng' = d.rng
           /\ held' = Append(held,
                [image_path |-> image_path, style |-> style,
                 returned |-> r,
                 result |-> [r EXCEPT !.design_tips = [list |-> TipsOwner(resolved)]],
                 touched |-> FALSE])
    /\ UNCHANGED <<kb_tips, ask, db_used, qt, bookings, bt, fs, tts, hex, last, memo,
                   mt, voice_agent, chains, memory, vt, ncalls>>

\* result["design_tips"].append(tip)
CallerAppendsTip(i, tip) ==
    /\ i \in DOMAIN held
    /\ Len(kb_tips[held[i].result.design_tips.list]) < MaxTips
    /\ kb_tips' = [kb_tips EXCEPT ![held[i].result.design_tips.list] = Append(@, tip)]
    /\ held' = [held EXCEPT ![i].touched = TRUE]
    /\ UNCHANGED <<ask, db_used, qt, bookings, bt, fs, tts, hex, rng, last, memo,
                   mt, voice_agent, chains, memory, vt, ncalls>>

\* result["design_tips"][0] = tip
CallerEditsTip(i, tip) ==
    /\ i \in DOMAIN held
    /\ kb_tips[held[i].result.design_tips.list][1] # tip
    /\ kb_tips' = [kb_tips EXCEPT ![held[i].result.design_tips.list][1] = tip]
    /\ held' = [held EXCEPT ![i].touched = TRUE]
    /\ UNCHANGED <<ask, db_used, qt, bookings, bt, fs, tts, hex, rng, last, memo,
                   mt, voice_agent, chains, memory, vt, ncalls>>

\* result["furniture"][0]["available"] = False: a dict the call built
CallerEditsFurniture(i) ==
    /\ i \in DOMAIN held
    /\ held[i].result.furniture[1].available
    /\ held' = [held EXCEPT ![i].result.furniture[1].available = FALSE,
                            ![i].touched = TRUE]
    /\ UNCHANGED <<kb_tips, ask, db_used, qt, bookings, bt, fs, tts, hex, rng, last,
                   memo, mt, voice_agent, chains, memory, vt, ncalls>>

\* the caller lets go of its oldest result
CallerDrops ==
    /\ held # <<>>
    /\ held' = Tail(held)
    /\ UNCHANGED <<kb_tips, ask, db_used, qt, bookings, bt, fs, tts, hex, rng, last,
                   memo, mt, voice_agent, chains, memory, vt, ncalls>>

NextShare ==
    \/ \E image_path \in ShareImagePaths, style \in ShareStyles :
        ShareGenerate(image_path, style)
    \/ \E i \in 1..MaxHeld, tip \in CallerTips : CallerAppendsTip(i, tip)
    \/ \E i \in 1..MaxHeld, tip \in CallerTips : CallerEditsTip(i, tip)
    \/ \E i \in 1..MaxHeld : CallerEditsFurniture(i)
    \/ CallerDrops

SpecShare == Init /\ [][NextShare]_vars

-----------------------------------------------------------------------------
(* Properties of generate_design                                           *)

Finished(call) == call.outcome \notin {"none", "pending"}

\* C1: two mock-mode generate_design calls on the same (image_path, style)
\* return the same furniture (same templates, same order), confidence,
\* processing_time_ms and coverage values, whatever calls were made before the
\* first or between the two.
C1_Determinism ==
    ( /\ memo.set
      /\ memo.later
      /\ last.outcome = "returned"
      /\ last.mock
      /\ last.image_path = memo.image_path
      /\ last.style = memo.style )
    => Projection(last.result) = memo.projection

\* a second call on the remembered pair, with another uuid and other
\* dimensions, after a call on a different pair ran in between
C1_Witness ==
    /\ memo.set
    /\ memo.between
    /\ last.outcome = "returned"
    /\ last.mock
    /\ last.image_path = memo.image_path
    /\ last.style = memo.style
    /\ last.style = " haveli "
    /\ last.uuid4 # memo.uuid4
    /\ last.dimensions # NoDimensions

\* C24: the seed is len(image_path) + len(style) and nothing else: two
\* mock-mode calls with the same style and image paths of the same length,
\* the paths themselves different or not, return the same furniture,
\* confidence, processing time, coverage values, light score and budget.
C24_SeedIsLengths ==
    ( /\ memo.set
      /\ memo.later
      /\ last.outcome = "returned"
      /\ last.mock
      /\ last.style = memo.style
      /\ Len(last.image_path) = Len(memo.image_path) )
    => SeededValues(last.result) = SeededValues(memo.result)

\* a call on /uploads/hall.jpg after a remembered call on /uploads/room.jpg,
\* both for Modern: the same items at the same prices
C24_Witness ==
    /\ memo.set
    /\ memo.image_path = "/uploads/room.jpg"
    /\ last.outcome = "returned"
    /\ last.mock
    /\ last.image_path = "/uploads/hall.jpg"
    /\ last.style = "Modern"
    /\ memo.style = "Modern"
    /\ last.result.furniture = memo.result.furniture
    /\ last.result.estimated_budget_inr.grand_total
            = memo.result.estimated_budget_inr.grand_total

\* a result without what differs from call to call and from mode to mode:
\* analysis_id, wall_clock_ms, model and image_caption
Comparable(result) ==
    [result EXCEPT !.project_meta =
        [k \in DOMAIN result.project_meta
                \ {"analysis_id", "wall_clock_ms", "model", "image_caption"} |->
            result.project_meta[k]]]

\* C25: a real-mode call returns what a mock-mode call on the same image,
\* style, room type and dimensions returns, up to analysis_id, wall_clock_ms,
\* model and image_caption; when the captioning step succeeded model is the
\* captioning model's identifier and image_caption is the caption (the
\* stock caption for an empty generation list); when it failed the result
\* has the mock's model and no image_caption.
C25_RealRefinesMock ==
    ( /\ memo.set
      /\ memo.later
      /\ last.outcome = "returned"
      /\ ~last.mock
      /\ last.image_path = memo.image_path
      /\ last.style = memo.style
      /\ last.room_type = memo.room_type
      /\ last.dimensions = memo.dimensions )
    => /\ Comparable(last.result) = Comparable(memo.result)
       /\ IF last.caption.kind = "return"
          THEN /\ last.result.project_meta.model = "BLIP-image-captioning-base"
               /\ "image_caption" \in DOMAIN last.result.project_meta
               /\ last.result.project_meta.image_caption =
                    (IF last.caption.value = <<>> THEN "a room interior"
                     ELSE last.caption.value[1].generated_text)
          ELSE /\ last.result.project_meta.model = memo.result.project_meta.model
               /\ "image_caption" \notin DOMAIN last.result.project_meta

\* a captioned real-mode call after a remembered mock-mode call on the same
\* arguments, room dimensions included
C25_Witness ==
    /\ memo.set
    /\ last.outcome = "returned"
    /\ ~last.mock
    /\ last.image_path = memo.image_path
    /\ last.style = memo.style
    /\ last.room_type = memo.room_type
    /\ last.dimensions = memo.dimensions
    /\ last.dimensions # NoDimensions
    /\ last.caption.kind = "return"
    /\ last.result.project_meta.image_caption = "a living room with a sofa"
    /\ last.result.project_meta.model # memo.result.project_meta.model
    /\ last.result.furniture = memo.result.furniture

RECURSIVE ListedPriceSum(_)
ListedPriceSum(furniture) ==
    IF furniture = <<>> THEN 0
    ELSE furniture[1].price_inr + ListedPriceSum(Tail(furniture))

\* C2: in every result returned (mock or real mode, any style, any
\* dimensions) grand_total = furniture_total + labour_estimate + miscellaneous,
\* and furniture_total is the sum of price_inr over the furniture listed.
C2_BudgetInvariant ==
    last.outcome = "returned" =>
        LET b == last.result.estimated_budget_inr
        IN  /\ b.grand_total = b.furniture_total + b.labour_estimate + b.miscellaneous
            /\ b.furniture_total = ListedPriceSum(last.result.furniture)

C2_Witness ==
    /\ last.outcome = "returned"
    /\ ~last.mock
    /\ last.dimensions # NoDimensions
    /\ Len(last.result.furniture) = 4
    /\ last.result.estimated_budget_inr.miscellaneous > 5000

\* C3: in real mode with an existing image the call returns a result for
\* every outcome of the captioning step; when that step fails, the result has
\* no image_caption and carries the mock model identifier.
C3_RealModeNeverFails ==
    (Finished(last) /\ ~last.mock /\ last.image_path \in ExistingFiles) =>
        /\ last.outcome = "returned"
        /\ last.caption.kind = "raise" =>
            /\ "image_caption" \notin DOMAIN last.result.project_meta
            /\ last.result.project_meta.model = "GruhaAI-Mock-v1.0"

C3_Witness ==
    /\ last.outcome = "returned"
    /\ ~last.mock
    /\ last.caption = Raises("RuntimeError")
    /\ last.result.project_meta.model = "GruhaAI-Mock-v1.0"

\* C9: a call on a path that is not an existing file ends in
\* FileNotFoundError, in mock and in real mode, with no result, with the
\* generator left as it was, and with neither the style normalized nor the
\* captioning service contacted.
C9_MissingFileRaisesFirst ==
    [][ (last.outcome = "pending" /\ last.image_path \notin ExistingFiles) =>
            /\ last'.outcome = "FileNotFoundError"
            /\ last'.result = NoResult
            /\ last'.effects = <<>>
            /\ rng' = rng ]_vars

C9_Witness ==
    /\ last.outcome = "FileNotFoundError"
    /\ ~last.mock
    /\ last.image_path = "/no/such/image.jpg"

RegisteredStyles == {"Modern", "Traditional", "Minimalist", "Bohemian", "Haveli"}

Range(seq) == {seq[i] : i \in DOMAIN seq}

TemplateOf(item) ==
    [name |-> item.name, material |-> item.material, color |-> item.color,
     price_inr |-> item.price_inr, category |-> item.category,
     placement |-> item.placement]

SwatchOf(entry) == [name |-> entry.name, hex |-> entry.hex, usage |-> entry.usage]

-----------------------------------------------------------------------------
(* Properties of concurrent _mock_generate calls                           *)

\* the result of the call when no other thread touches the generator
AloneResult(image_path, style) ==
    MockGenerate(0, image_path, style, "Living Room", NoDimensions, "uuid-1").result

\* C8: two mock-mode calls with different inputs running on different
\* threads each return the result they return when run alone.
C8_ConcurrentCallsIsolated ==
    \A t \in MockThreads :
        ( /\ mt[t].pc = "done"
          /\ \A u \in MockThreads \ {t} :
                mt[u].pc = "idle"
                \/ mt[u].image_path # mt[t].image_path
                \/ mt[u].style # mt[t].style )
        => mt[t].result = AloneResult(mt[t].image_path, mt[t].style)

-----------------------------------------------------------------------------
(* Properties of VoiceAgent.answer reached through get_voice_agent         *)

\* whitespace-separated tokens of each trimmed query
Tokens == [query \in Queries \cup TierQueries |-> SplitCount(StrStrip(query))]

\* the greeting registered for a code, the English one for any other code
ExpectedGreeting(language) ==
    CASE language = "hi" -> LANG_GREETINGS["hi"]
      [] language = "te" -> LANG_GREETINGS["te"]
      [] OTHER -> LANG_GREETINGS["en"]

\* positions in DESIGN_FAQ of the keywords each lower-cased query contains
MatchingKeywords ==
    [query \in Queries \cup TierQueries |->
        {i \in DOMAIN DESIGN_FAQ : StrContains(DESIGN_FAQ[i].keyword, StrLower(query))}]

FirstMatching ==
    [query \in {q \in Queries : MatchingKeywords[q] # {}} |->
        CHOOSE i \in MatchingKeywords[query] : \A j \in MatchingKeywords[query] : i <= j]

\* the answer of the rule-based tier to each query
RuleBasedAnswer == [query \in Queries \cup TierQueries |-> FallbackAnswer(StrLower(query))]

C5_FirstKeywordWins ==
    \A t \in VoiceThreads :
        ( /\ vt[t].pc = "done"
          /\ Tokens[vt[t].query] > 2
          /\ MatchingKeywords[vt[t].query] # {} ) =>
            /\ vt[t].response = DESIGN_FAQ[FirstMatching[vt[t].query]].answer
            /\ ~vt[t].built
            /\ ~vt[t].invoked
            /\ vt[t].chain = 0

\* an upper-case query containing two keywords, answered while no session
\* exists although the agent does
C5_Witness ==
    \E t \in VoiceThreads :
        /\ vt[t].pc = "done"
        /\ vt[t].query = "VASTU tips for my kitchen"
        /\ Cardinality(MatchingKeywords[vt[t].query]) = 2
        /\ vt[t].response = DESIGN_FAQ[1].answer
        /\ voice_agent # 0
        /\ memory = <<>>

\* C6: answer returns a string and raises nothing; when no FAQ keyword
\* matches and the session could not be built or its invocation raised, the
\* response is the rule-based fallback answer of the query, or the greeting
\* when the query is short.
C6_AnswerNeverRaises ==
    \A t \in VoiceThreads :
        vt[t].pc = "done" =>
            /\ ~vt[t].raised
            /\ vt[t].response # ""
            /\ ( /\ MatchingKeywords[vt[t].query] = {}
                 /\ (vt[t].chain = 0 \/ vt[t].llm_error) ) =>
                    vt[t].response =
                        IF Tokens[vt[t].query] <= 2
                        THEN ExpectedGreeting(vt[t].language)
                        ELSE RuleBasedAnswer[vt[t].query]

\* one call whose session invocation raised and one whose session could not
\* be built, both answered by the rule-based tier
C6_Witness ==
    \E t, u \in VoiceThreads :
        /\ vt[t].pc = "done"
        /\ vt[t].llm_error
        /\ vt[t].query = "Which sofa colour suits best"
        /\ vt[t].response = "Warm neutrals like ivory, beige, and warm white work well"
        /\ vt[u].pc = "done"
        /\ vt[u].chain = 0
        /\ vt[u].query = "How do I arrange my hall"
        /\ vt[u].response = RuleBasedAnswer[vt[u].query]

\* C7: over every interleaving of calls made through get_voice_agent at most
\* one VoiceAgent and at most one session is constructed, and every call that
\* reaches the session invokes that one.
C7_SingleSession ==
    /\ Len(chains) <= 1
    /\ Len(memory) <= 1
    /\ \A t \in VoiceThreads : vt[t].invoked => vt[t].chain = 1

\* the first bucket, in the order colour, furniture, lighting, one of whose
\* words occurs in the lower-cased query; "none" when no bucket word occurs
BucketOf ==
    [query \in TierQueries |->
        LET has(words) == \E w \in words : StrContains(w, StrLower(query))
        IN  CASE has({"color", "colour", "paint"}) -> "colour"
              [] ~has({"color", "colour", "paint"})
                 /\ has({"furniture", "sofa", "bed", "chair"}) -> "furniture"
              [] ~has({"color", "colour", "paint", "furniture", "sofa", "bed", "chair"})
                 /\ has({"light", "lamp", "brightness"}) -> "lighting"
              [] OTHER -> "none"]

BucketAnswer ==
    "colour" :> "Warm neutrals like ivory, beige, and warm white work well"
    @@ "furniture" :> "When selecting furniture, consider the room's proportion first"
    @@ "lighting" :> "Layer your lighting: ambient, task, and accent"
    @@ "none" :> "Thank you for your question! Gruha Alankara's AI specialises in interior design"

\* C26: when the rule-based tier answers (no FAQ keyword in the query, no
\* session or a failed invocation, more than two tokens) the answer is that
\* of the first of the buckets colour, furniture, lighting with a word
\* occurring in the lower-cased query, and the generic redirect message
\* exactly when no bucket word occurs.
C26_RuleBuckets ==
    \A t \in TierThreads :
        ( /\ vt[t].pc = "done"
          /\ MatchingKeywords[vt[t].query] = {}
          /\ (vt[t].chain = 0 \/ vt[t].llm_error)
          /\ Tokens[vt[t].query] > 2 ) =>
            /\ vt[t].response = BucketAnswer[BucketOf[vt[t].query]]
            /\ vt[t].response = BucketAnswer["none"] <=> BucketOf[vt[t].query] = "none"

\* an upper-case PAINT next to chair answered by the colour bucket after the
\* session's invocation raised
C26_Witness ==
    \E t \in TierThreads :
        /\ vt[t].pc = "done"
        /\ vt[t].llm_error
        /\ vt[t].query = "Which PAINT for my chair"
        /\ vt[t].response = "Warm neutrals like ivory, beige, and warm white work well"

-----------------------------------------------------------------------------
(* Properties of generate_design over style spellings and room dimensions  *)

\* the registered name a spelling stands for: the one equal to it when case
\* and surrounding whitespace are ignored
CanonicalOf ==
    [style \in {x \in StyleSpellings :
                    \E name \in RegisteredStyles : StrLower(StrStrip(x)) = StrLower(name)} |->
        CHOOSE name \in RegisteredStyles : StrLower(StrStrip(style)) = StrLower(name)]

\* C11: a registered style name in any letter case and with any surrounding
\* whitespace resolves to that style without fallback: project_meta.style is
\* the canonical name and furniture, colours and tips are that profile's.
C11_RegisteredStylesResolve ==
    (Finished(last) /\ last.style \in DOMAIN CanonicalOf) =>
        LET name == CanonicalOf[last.style]
            profile == STYLE_KNOWLEDGE[name]
        IN  /\ last.outcome = "returned"
            /\ last.result.project_meta.style = name
            /\ \A i \in DOMAIN last.result.furniture :
                TemplateOf(last.result.furniture[i]) \in Range(profile.furniture)
            /\ [i \in DOMAIN last.result.color_scheme |->
                    SwatchOf(last.result.color_scheme[i])] = profile.color_scheme
            /\ last.result.design_tips = profile.tips

\* a mixed-case spelling of a style other than the default, resolved
C11_Witness ==
    /\ last.outcome = "returned"
    /\ last.style = "bOhEmIaN"
    /\ last.result.project_meta.style = "Bohemian"
    /\ last.result.design_tips = BohemianProfile.tips

SmallRoomNotes ==
    <<"Small room: prioritise wall-mounted storage", "Use mirrors to create an illusion of depth">>

MediumRoomNotes ==
    <<"Medium room: an L-shaped sofa arrangement", "Consider a centrally anchored area rug">>

LargeRoomNotes ==
    <<"Large room: divide into functional zones", "Use a statement chandelier">>

\* the area of the last result, in tenths of a square foot
AreaOf(call) == call.result.project_meta.room_area_sqft

\* the notes that come before the three fixed trailing notes
LeadingNotes(call) ==
    SubSeq(call.result.placement.notes, 1, Len(call.result.placement.notes) - 3)

\* the three notes every result ends with, for the style of the result
FixedNotes(call) ==
    << "Ensure at least 90 cm clearance between all walkways",
       "Position seating to face the primary light source",
       "For " \o call.result.project_meta.style \o " style: "
           \o STYLE_KNOWLEDGE[call.result.project_meta.style].tips[1] >>

\* C15: for every computed area exactly one band's pair of notes leads the
\* placement notes: small when area < 100, medium when 100 <= area <= 200,
\* large only when area > 200.
C15_AreaBands ==
    (last.outcome = "returned" /\ AreaOf(last) # NoArea) =>
        LeadingNotes(last) =
            IF AreaOf(last) < 1000 THEN SmallRoomNotes
            ELSE IF AreaOf(last) <= 2000 THEN MediumRoomNotes
            ELSE LargeRoomNotes

\* C16: strategy is "zone-based" exactly when an area was computed and is
\* above 150, "single-zone" otherwise (150 itself and no area included); an
\* area strictly between 150 and 200 has the medium-room notes and the
\* zone-based strategy together.
C16_StrategyThreshold ==
    last.outcome = "returned" =>
        /\ last.result.placement.strategy =
              IF AreaOf(last) # NoArea /\ AreaOf(last) > 1500
              THEN "zone-based" ELSE "single-zone"
        /\ (AreaOf(last) > 1500 /\ AreaOf(last) < 2000) =>
              /\ LeadingNotes(last) = MediumRoomNotes
              /\ last.result.placement.strategy = "zone-based"

\* a 15 x 12 room: medium-room notes with the zone-based strategy
C16_Witness ==
    /\ last.outcome = "returned"
    /\ last.dimensions = [length |-> 150, width |-> 120]
    /\ AreaOf(last) = 1800
    /\ LeadingNotes(last) = MediumRoomNotes
    /\ last.result.placement.strategy = "zone-based"

\* C17: with a length and a width the area is their product rounded to one
\* decimal (15 x 12 gives 180.0); with either one missing the area is null
\* and the placement notes are exactly the three fixed notes, in order.
C17_RoomArea ==
    last.outcome = "returned" =>
        IF last.dimensions.length # 0 /\ last.dimensions.width # 0
        THEN /\ AreaOf(last) # NoArea
             /\ 10 * AreaOf(last) - last.dimensions.length * last.dimensions.width
                    \in -5..5
             /\ last.dimensions = [length |-> 150, width |-> 120] => AreaOf(last) = 1800
        ELSE /\ AreaOf(last) = NoArea
             /\ last.result.placement.notes = FixedNotes(last)

\* a 12.3 x 12.3 room, whose product 151.29 rounds up to 151.3
C17_Witness ==
    /\ last.outcome = "returned"
    /\ last.dimensions = [length |-> 123, width |-> 123]
    /\ AreaOf(last) = 1513
    /\ Len(last.result.placement.notes) = 5

\* C18: every result lists 3 or 4 furniture items (fewer only if the style
\* has fewer templates), each from a different template of the resolved
\* style: no template twice, none from another style.
C18_FurnitureSelection ==
    last.outcome = "returned" =>
        LET furniture == last.result.furniture
            templates == STYLE_KNOWLEDGE[last.result.project_meta.style].furniture
        IN  /\ Len(furniture) \in {Min(3, Len(templates)), Min(4, Len(templates))}
            /\ \A i \in DOMAIN furniture : TemplateOf(furniture[i]) \in Range(templates)
            /\ \A i, j \in DOMAIN furniture :
                i # j => TemplateOf(furniture[i]) # TemplateOf(furniture[j])

\* four items of the Haveli profile, none of them the first template picked
\* in template order
C18_Witness ==
    /\ last.outcome = "returned"
    /\ last.result.project_meta.style = "Haveli"
    /\ Len(last.result.furniture) = 4
    /\ TemplateOf(last.result.furniture[1]) # HaveliProfile.furniture[1]

\* the id prefix of each registered style and the index as three digits
IdPrefix ==
    "Modern" :> "MOD" @@ "Traditional" :> "TRA" @@ "Minimalist" :> "MIN"
    @@ "Bohemian" :> "BOH" @@ "Haveli" :> "HAV"

ThreeDigits == <<"001", "002", "003", "004", "005">>

\* C19: the i-th furniture item, counted from 1, has the id
\* FURN-<first three letters of the resolved style, upper-cased>-<i as three
\* digits>; ids are distinct; the first item is "recommended", the others
\* "optional".
C19_FurnitureIds ==
    last.outcome = "returned" =>
        LET furniture == last.result.furniture
        IN  /\ \A i \in DOMAIN furniture :
                /\ furniture[i].id =
                      "FURN-" \o IdPrefix[last.result.project_meta.style] \o "-" \o ThreeDigits[i]
                /\ furniture[i].priority = IF i = 1 THEN "recommended" ELSE "optional"
            /\ \A i, j \in DOMAIN furniture : i # j => furniture[i].id # furniture[j].id

\* a Traditional result asked for in another spelling
C19_Witness ==
    /\ last.outcome = "returned"
    /\ last.style = "tRADITIONAL"
    /\ Len(last.result.furniture) >= 3
    /\ last.result.furniture[1].id = "FURN-TRA-001"
    /\ last.result.furniture[1].priority = "recommended"
    /\ last.result.furniture[3].id = "FURN-TRA-003"
    /\ last.result.furniture[3].priority = "optional"

-----------------------------------------------------------------------------
(* Properties of TTSEngine.synthesize                                      *)

\* the stem of the audio file name: the caller's, or the generated one
Stem(call) ==
    IF call.filename = None THEN "tts_" \o SubSeq(call.uuid_hex, 1, 12) ELSE call.filename

\* the speech library is not installed
Unavailable(call) ==
    call.gtts.kind = "raise" /\ call.gtts.error \in {"ImportError", "ModuleNotFoundError"}

\* C12: when the speech library is not installed synthesize raises nothing
\* and returns, for every output directory and filename stem, the path of an
\* existing file inside output_dir named as the .mp3 file with only the
\* extension changed to .txt, holding the marker, the language code and the
\* text.
C12_PlaceholderWhenUnavailable ==
    (tts.outcome \notin {"none", "pending"} /\ Unavailable(tts)) =>
        /\ tts.outcome = "returned"
        /\ tts.path = PathJoin(tts.output_dir, Stem(tts) \o ".txt")
        /\ tts.path \in DOMAIN fs.files
        /\ fs.files[tts.path] =
              "[TTS placeholder] lang=" \o tts.lang_code \o "\n" \o tts.text

\* C13: when the library is installed and constructing the synthesizer or
\* saving the audio raises, synthesize raises RuntimeError, returns no path
\* and writes no placeholder file.
C13_SynthesisErrorSurfaces ==
    [][ ( /\ tts.outcome = "pending"
          /\ tts.gtts.kind = "raise"
          /\ tts.gtts.error \notin {"ImportError", "ModuleNotFoundError"} ) =>
            /\ tts'.outcome = "RuntimeError"
            /\ tts'.path = ""
            /\ fs'.files = fs.files ]_vars

\* a save that failed after an earlier call had left a placeholder file
C13_Witness ==
    /\ tts.outcome = "RuntimeError"
    /\ tts.gtts = Raises("gTTSError")
    /\ "/tmp/custom_test.txt" \in DOMAIN fs.files
    /\ "/tmp/custom_test.mp3" \notin DOMAIN fs.files

\* the code of a language, letter case ignored; "en" for any other input
ExpectedLangCode(language) ==
    CASE StrLower(language) \in {"en", "english"} -> "en"
      [] StrLower(language) \in {"hi", "hindi"} -> "hi"
      [] StrLower(language) \in {"te", "telugu"} -> "te"
      [] OTHER -> "en"

Recognized(language) ==
    StrLower(language) \in {"en", "hi", "te", "english", "hindi", "telugu"}

\* C14: the language is resolved through the table with letter case
\* ignored and is "en" for every other input; an unrecognized language ends
\* the call exactly as "en" ends it, and with a working library the call
\* returns the path of the file it saved.
C14_LanguageDefault ==
    [][ tts.outcome = "pending" =>
            /\ tts'.lang_code = ExpectedLangCode(tts.language)
            /\ ~Recognized(tts.language) =>
                LET en == SynthesizeCall(fs, tts.text, "en", tts.output_dir,
                                         tts.filename, tts.uuid_hex, tts.gtts)
                IN  /\ tts'.lang_code = "en"
                    /\ tts'.outcome = en.outcome
                    /\ tts'.path = en.path
                    /\ fs' = en.fs
                    /\ tts.gtts.kind = "return" =>
                        /\ tts'.outcome = "returned"
                        /\ tts'.path \in DOMAIN fs'.files ]_vars

\* an unrecognized code answered with a placeholder written for "en"
C14_Witness ==
    /\ tts.outcome = "returned"
    /\ tts.language = "zz"
    /\ tts.lang_code = "en"
    /\ Unavailable(tts)
    /\ tts.path \in DOMAIN fs.files
    /\ fs.files[tts.path] = "[TTS placeholder] lang=en\nWelcome to Gruha Alankara"

\* C23: when the speech library saves the audio, synthesize returns the
\* path of the saved file, output_dir joined with the caller's stem and
\* ".mp3", or with "tts_", the first 12 hexadecimal characters of a fresh
\* uuid and ".mp3" when no stem is given; after every call, failed or not,
\* the output directory exists, and a directory that existed before the
\* call makes no call fail.
C23_OutputPath ==
    (tts.outcome \notin {"none", "pending"}) =>
        /\ DirKey(tts.output_dir) \in fs.dirs
        /\ tts.gtts.kind = "return" =>
            /\ tts.outcome = "returned"
            /\ tts.path = DirKey(tts.output_dir) \o "/" \o Stem(tts) \o ".mp3"
            /\ tts.path \in DOMAIN fs.files
            /\ fs.files[tts.path] = tts.gtts.value
            /\ tts.filename = None =>
                /\ Len(Basename(tts.path)) = 4 + 12 + 4
                /\ \A i \in 5..16 : SubSeq(Basename(tts.path), i, i) \in HexChars

\* a second call into /srv/audio/, absent when the process started and
\* created by the first call: both audio files are there, the second under a
\* generated name
C23_Witness ==
    /\ tts.outcome = "returned"
    /\ tts.output_dir = "/srv/audio/"
    /\ tts.filename = None
    /\ tts.path = "/srv/audio/tts_9f1c2ab47d3e.mp3"
    /\ "/srv/audio" \in fs.dirs
    /\ {"/srv/audio/custom_test.mp3", "/srv/audio/tts_9f1c2ab47d3e.mp3"}
            \subseteq DOMAIN fs.files
    /\ fs.files[tts.path] = "mp3 audio"

-----------------------------------------------------------------------------
(* Properties of _hex_to_rgb                                               *)

Black == [r |-> 0, g |-> 0, b |-> 0]

\* the input without its leading markers
Unmarked(input) == LStripHash(input)

\* exactly six hexadecimal digits
SixHexDigits(h) ==
    Len(h) = 6 /\ \A i \in 1..6 : SubSeq(h, i, i) \in Chars("0123456789abcdefABCDEF")

\* the three 2-digit groups as numbers
Decoded(h) ==
    [r |-> 16 * HexVal(SubSeq(h, 1, 1)) + HexVal(SubSeq(h, 2, 2)),
     g |-> 16 * HexVal(SubSeq(h, 3, 3)) + HexVal(SubSeq(h, 4, 4)),
     b |-> 16 * HexVal(SubSeq(h, 5, 5)) + HexVal(SubSeq(h, 6, 6))]

-----------------------------------------------------------------------------
(* Properties of results in their callers' hands                           *)

-----------------------------------------------------------------------------
(* Properties of the colour entries of a result                            *)

\* the value of a hexadecimal digit, written out
NibbleOf ==
    "0" :> 0 @@ "1" :> 1 @@ "2" :> 2 @@ "3" :> 3 @@ "4" :> 4 @@ "5" :> 5
    @@ "6" :> 6 @@ "7" :> 7 @@ "8" :> 8 @@ "9" :> 9
    @@ "A" :> 10 @@ "B" :> 11 @@ "C" :> 12 @@ "D" :> 13 @@ "E" :> 14 @@ "F" :> 15
    @@ "a" :> 10 @@ "b" :> 11 @@ "c" :> 12 @@ "d" :> 13 @@ "e" :> 14 @@ "f" :> 15

\* the byte written by the two digits at i and i + 1
ByteAt(h, i) == 16 * NibbleOf[SubSeq(h, i, i)] + NibbleOf[SubSeq(h, i + 1, i + 1)]

\* a marker character followed by exactly six hexadecimal digits
WellFormedHex(h) ==
    /\ Len(h) = 7
    /\ SubSeq(h, 1, 1) = "#"
    /\ \A i \in 2..7 : SubSeq(h, i, i) \in DOMAIN NibbleOf

\* C22: in every returned result the colour entries are the swatches of the
\* result's style in the knowledge base's order; each hex is a marker
\* followed by exactly six hexadecimal digits, each rgb is the decoding of
\* its hex, and black only for 000000.
C22_ColourFormat ==
    (Finished(last) /\ last.outcome = "returned") =>
        LET colours == last.result.color_scheme
            swatches == GetStyleData(last.result.project_meta.style).color_scheme
        IN  /\ Len(colours) = Len(swatches)
            /\ \A i \in DOMAIN colours :
                /\ SwatchOf(colours[i]) = swatches[i]
                /\ WellFormedHex(colours[i].hex)
                /\ colours[i].rgb = [r |-> ByteAt(colours[i].hex, 2),
                                     g |-> ByteAt(colours[i].hex, 4),
                                     b |-> ByteAt(colours[i].hex, 6)]
                /\ colours[i].rgb = Black => SubSeq(colours[i].hex, 2, 7) = "000000"

\* a Traditional result whose third colour is Turmeric Gold, E3A857, decoded
\* to (227, 168, 87), and whose entries follow the Traditional swatches
C22_Witness ==
    /\ Finished(last) /\ last.outcome = "returned"
    /\ last.result.project_meta.style = "Traditional"
    /\ Len(last.result.color_scheme) = Len(TraditionalProfile.color_scheme)
    /\ last.result.color_scheme[3].name = "Turmeric Gold"
    /\ last.result.color_scheme[3].hex = "#E3A857"
    /\ last.result.color_scheme[3].rgb = [r |-> 227, g |-> 168, b |-> 87]
    /\ last.result.color_scheme[1].hex = TraditionalProfile.color_scheme[1].hex


-----------------------------------------------------------------------------
(* Properties of the ask_voice handler                                     *)

\* C28: whatever the audio step does, a request with a query is answered
\* with a success response carrying the text answer; audio_available is
\* true exactly when audio was requested and synthesize returned a path,
\* and then audio_filename is that path's last component; otherwise, a
\* synthesis-failure error included, audio_url and audio_filename are null.
C28_AudioFailureKeepsAnswer ==
    (ask.outcome = "responded" /\ ask.raw_query # "") =>
        /\ ask.response.status = 200
        /\ ask.response.success
        /\ ask.response.answer = ask.text
        /\ ask.response.answer # ""
        /\ ~ask.agent_raises =>
                IF Tokens[ask.raw_query] <= 2
                THEN ask.response.answer \in Range(LANG_GREETINGS)
                ELSE MatchingKeywords[ask.raw_query] # {} =>
                        ask.response.answer
                            = DESIGN_FAQ[FirstMatching[ask.raw_query]].answer
        /\ ask.response.audio_available <=>
                /\ ask.want_audio
                /\ ask.synthesis \notin {"not called", "RuntimeError", "FileNotFoundError"}
        /\ ask.response.audio_available =>
                /\ ask.synthesis \in DOMAIN fs.files
                /\ ask.response.audio_url
                        = "/api/voice/audio/" \o ask.response.audio_filename
                /\ AUDIO_FOLDER \o "/" \o ask.response.audio_filename = ask.synthesis
        /\ ~ask.response.audio_available =>
                /\ ask.response.audio_url = None
                /\ ask.response.audio_filename = None

\* the FAQ answer on Vastu returned without audio after the speech library
\* failed while saving
C28_Witness ==
    /\ ask.outcome = "responded"
    /\ ask.raw_query = "VASTU tips for my kitchen"
    /\ ask.want_audio
    /\ ask.gtts = Raises("gTTSError")
    /\ ask.synthesis = "RuntimeError"
    /\ ask.response.status = 200
    /\ ask.response.answer = DESIGN_FAQ[1].answer
    /\ ask.response.audio_url = None
    /\ ~ask.response.audio_available

-----------------------------------------------------------------------------
(* Properties of the AI quota                                              *)

\* C29: over every interleaving of one user's design-generate requests
\* ai_analyses_used never exceeds ai_analyses_limit, and it counts the
\* completed analyses: each one raised it by exactly one.
C29_QuotaNeverExceeded ==
    /\ db_used.used <= db_used.limit
    /\ db_used.used = db_used.completed

-----------------------------------------------------------------------------
(* Properties of the bookings                                              *)

====
